---------------------------- MODULE Spec2Model ----------------------------
(***************************************************************************)
(* Asset resolution and caching of StreetType.                             *)
(*                                                                         *)
(*   AssetManager   (assetManager.js): path detection, loadLetter          *)
(*   LetterDatabase (scripts/database.js): loadImage, both definitions     *)
(*                                                                         *)
(* JavaScript runs one macrotask at a time and drains the microtask queue  *)
(* before the next one.  An action below is therefore one macrotask: a     *)
(* call made by a client, or one event of the image-loading primitive or   *)
(* of a timer, together with every await continuation the event releases.  *)
(***************************************************************************)
EXTENDS Integers, Sequences, FiniteSets, TLC

VARIABLES
  component,   \* the component a behaviour exercises
  hostname,    \* window.location.hostname
  candidates,  \* the candidate lists detection walks: [bases, templates]
  am,          \* the AssetManager singleton (its fields)
  amLoads,     \* the Image objects created by AssetManager._loadLetterImage
  detections,  \* the runs of the detection loop of AssetManager.initialize
  db,          \* a LetterDatabase instance (its fields)
  dbLoads,     \* the Image objects created by LetterDatabase.loadImage
  call,        \* per client: the call it has made and what it got back
  ncalls,      \* number of calls made so far
  server,      \* the server: the paths it has, and those it serves late
  config,      \* config.js: the defaults
  check,       \* the test case LetterDatabase._checkForAssets is at
  late,        \* the probes whose timer fired before their load event
  lookups,     \* the calls of getLetterVariants made by clients
  sel,         \* a LetterSelector and the call of getSelectedLetters
  tm,          \* the TypographyManager and the call of getLettersFromText
  app,         \* the page of app.js: its generate button and its generations
  deb,         \* a function made by debounce, its timer and its invocations
  gen          \* a LetterGenerator and the calls of generateLetter made

\* the variables of text resolution
tvars == <<server, config, check, late, lookups, sel, tm>>

\* the variables of the page
uvars == <<app, deb, gen>>

vars == <<component, hostname, candidates, am, amLoads, detections, db,
          dbLoads, call, ncalls, tvars, uvars>>

---------------------------------------------------------------------------
(* Bounds of the model *)

NumCallers == 2

MaxCalls == 3

MaxBases == 2

MaxTemplates == 2
\* Math.random is drawn from this many values
NumFilterIds == 2

\* calls of getLetterVariants a client makes
MaxLookups == 2

\* requests and operations that fail during one text resolution
MaxFaults == 1

\* the letters of _prewarmCache that are modelled, of its four
MaxPrewarm == 1

\* on a catalog that draws the filter id of a glyph from Math.random, the
\* selector resolves texts of at most this many characters
MaxDrawnText == 3

\* the typography manager resolves texts of at most this many characters
\* when the asset manager has found assets and requests them
MaxRequestedText == 3

Callers == 1..NumCallers

---------------------------------------------------------------------------
(* Strings and maps *)

Null == "null"

\* String.prototype.indexOf, 1-based; 0 when sub does not occur in s
IndexOf(s, sub) ==
  LET indexIn[x \in STRING, y \in STRING] ==
        LET last == Len(x) - Len(y) + 1
            at(i) == SubSeq(x, i, i + Len(y) - 1) = y
        IN IF \E i \in 1..last : at(i)
           THEN CHOOSE i \in 1..last : at(i) /\ \A j \in 1..(i - 1) : ~at(j)
           ELSE 0
  IN indexIn[s, sub]

\* String.prototype.replace with a string pattern: the first occurrence only
ReplaceFirst(s, sub, rep) ==
  LET replaceIn[x \in STRING, y \in STRING] ==
        LET i == IndexOf(x, y)
        IN IF i = 0 THEN x
           ELSE SubSeq(x, 1, i - 1) \o rep \o SubSeq(x, i + Len(y), Len(x))
  IN replaceIn[s, sub]

\* String.prototype.startsWith
StartsWith(s, prefix) ==
  Len(s) >= Len(prefix) /\ SubSeq(s, 1, Len(prefix)) = prefix

\* Map.set / obj[k] = v
MapSet(f, k, v) == [x \in DOMAIN f \cup {k} |-> IF x = k THEN v ELSE f[x]]

\* Map.delete / delete obj[k]
MapDel(f, k) == [x \in DOMAIN f \ {k} |-> f[x]]

EmptyMap == [x \in {} |-> Null]


---------------------------------------------------------------------------
(* Characters and strings, as the JavaScript string methods treat them *)

LowerCaseLetters == "abcdefghijklmnopqrstuvwxyz"

UpperCaseLetters == "ABCDEFGHIJKLMNOPQRSTUVWXYZ"

DigitCharacters == "0123456789"

\* the characters of symbolRegex, /^[!@#$%^&*()_+\-=[\]{}|;':",./<>?]$/
SymbolCharacters == "!@#$%^&*()_+-=[]{}|;':\",./<>?"

\* /^[a-zA-Z]$/: one character of the class
IsLetter(ch) ==
  /\ Len(ch) = 1
  /\ IndexOf(LowerCaseLetters, ch) > 0 \/ IndexOf(UpperCaseLetters, ch) > 0

\* /^[0-9]$/
IsNumber(ch) == Len(ch) = 1 /\ IndexOf(DigitCharacters, ch) > 0

IsSymbol(ch) == Len(ch) = 1 /\ IndexOf(SymbolCharacters, ch) > 0

\* a test that takes every character for a letter or a digit
IsAlphanumericAny(ch) == Len(ch) = 1

\* char.match(/[a-zA-Z0-9]/)
IsAlphanumeric(ch) == IsLetter(ch) \/ IsNumber(ch)

\* String.prototype.toUpperCase on one character
toUpperCaseChar(ch) ==
  LET k == IndexOf(LowerCaseLetters, ch)
  IN IF k > 0 THEN SubSeq(UpperCaseLetters, k, k) ELSE ch

\* String.prototype.toLowerCase on one character
toLowerCaseChar(ch) ==
  LET k == IndexOf(UpperCaseLetters, ch)
  IN IF k > 0 THEN SubSeq(LowerCaseLetters, k, k) ELSE ch

RECURSIVE toUpperCase(_)
toUpperCase(s) ==
  IF s = "" THEN ""
  ELSE toUpperCaseChar(SubSeq(s, 1, 1)) \o toUpperCase(SubSeq(s, 2, Len(s)))

RECURSIVE toLowerCase(_)
toLowerCase(s) ==
  IF s = "" THEN ""
  ELSE toLowerCaseChar(SubSeq(s, 1, 1)) \o toLowerCase(SubSeq(s, 2, Len(s)))

\* the i-th character a `for (const char of text)` loop visits
CharAt(s, i) == SubSeq(s, i, i)

\* `character === character.toUpperCase() ? 'upper' : 'lower'`
CaseOf(ch) == IF ch = toUpperCaseChar(ch) THEN "upper" ELSE "lower"

\* String(variantIndex).padStart(2, '0')
PadStart2(n) == IF n < 10 THEN "0" \o ToString(n) ELSE ToString(n)

\* an orchestrator that leaves the text in the case it was typed in
CaseTransformNone(text, caseOption) == text

\* the case conversion both orchestrators apply to the whole text
CaseTransform(text, caseOption) ==
  IF caseOption = "upper" THEN toUpperCase(text)
  ELSE IF caseOption = "lower" THEN toLowerCase(text)
  ELSE text

---------------------------------------------------------------------------
(* The texts the clients have resolved *)

Texts == {"", "aA", "A1!", "Hi there"}

CaseOptions == {"mixed", "upper", "lower"}

\* config.js is not among the sources: its default text is any of these
DefaultTexts == {"", "Hi"}

\* the letters of a text
LettersOf(text) ==
  {CharAt(text, i) : i \in {j \in 1..Len(text) : IsAlphanumeric(CharAt(text, j))}}

---------------------------------------------------------------------------
(* utils.js: the Glyph Synthesizer, as far as the loaders use it *)

\* the base style a style key selects its font and palette by
BaseStyle(style) ==
  IF IndexOf(style, "-upper") > 0 \/ IndexOf(style, "-lower") > 0
  THEN SubSeq(style, 1, IndexOf(style, "-") - 1)
  ELSE style

\* the values Math.floor(Math.random() * 10000) takes
FilterIds == 0..(NumFilterIds - 1)

\* the data URL of the synthesized glyph, as what it is rendered from: the
\* base style, the character and the filter id the SVG embeds; random is
\* the value Math.random yields for that id
generateFallbackLetterSVG(char, style, random) ==
  "data:image/svg+xml;charset=utf-8," \o BaseStyle(style) \o ":" \o char
    \o "#shadow_" \o char \o "_" \o ToString(random)

---------------------------------------------------------------------------
(* assetManager.js: AssetManager *)

possibleBasePaths ==
  << "", "assets/", "/assets/", "./assets/", "../assets/", "images/",
     "/images/", "./images/", "fonts/", "/fonts/", "./fonts/", "letters/",
     "/letters/", "./letters/" >>

pathTemplates ==
  << "${base}${city}/alphabet/${letter}/${style}/${variant}.jpg",
     "${base}cities/${city}/alphabet/${letter}/${style}/${variant}.jpg",
     "${base}alphabet/${city}/${letter}/${style}/${variant}.jpg",
     "${base}${letter}/${style}/${variant}.jpg",
     "${base}${style}/${letter}/${variant}.jpg",
     "${base}${letter}_${style}_${variant}.jpg" >>

quickPaths ==
  << "assets/alphabet/NYC/A/sans-upper/01.jpg",
     "assets/letters/A/sans-upper/01.jpg" >>

Hostnames == {"localhost", "streettype.example"}

\* the development-environment test of initialize
IsDevelopmentHost(h) == h = "localhost" \/ h = "127.0.0.1"

\* the state the constructor leaves
AssetManagerNew ==
  [ cache |-> EmptyMap, fallbackImages |-> EmptyMap,
    loadingPromises |-> EmptyMap,
    stats |-> [requested |-> 0, loaded |-> 0, failed |-> 0, cached |-> 0],
    basePath |-> "", initialized |-> FALSE, workingPathPattern |-> Null,
    assetsDetected |-> FALSE, assetDetectionCompleted |-> FALSE ]

\* values: the entries of the object, in insertion order, as <<key, value>>
RECURSIVE _replacePlaceholders(_, _)
_replacePlaceholders(template, values) ==
  IF values = <<>> THEN template
  ELSE _replacePlaceholders(
         ReplaceFirst(template, "${" \o Head(values)[1] \o "}", Head(values)[2]),
         Tail(values))

PlaceholderValues(base, city, letter, style, variant) ==
  << <<"base", base>>, <<"city", city>>, <<"letter", letter>>,
     <<"style", style>>, <<"variant", variant>> >>

\* the canonical probe instantiation of a (base, template) combination
TestPath(template, base) ==
  _replacePlaceholders(template,
                       PlaceholderValues(base, "NYC", "A", "sans-upper", "01"))

\* path.split('/')[0] + '/'
QuickBasePath(path) ==
  (IF IndexOf(path, "/") = 0 THEN path
   ELSE SubSeq(path, 1, IndexOf(path, "/") - 1)) \o "/"

\* the pattern the development branch derives from a quick path it found
QuickPattern(path, base) ==
  "${base}" \o
  ReplaceFirst(
    ReplaceFirst(
      ReplaceFirst(SubSeq(path, Len(base) + 1, Len(path)), "A", "${letter}"),
      "sans-upper", "${style}"),
    "01.jpg", "${variant}.jpg")

\* initialize without its guard: every call starts a detection
InitializeGuardAbsent(this) == FALSE

\* `if (this.initialized)` at the head of initialize
InitializeGuard(this) == this.initialized

\* the fallback for 'A' that every detection installs before it probes
initializeFallbackA(this, random) ==
  [this EXCEPT !.fallbackImages =
     MapSet(@, "A", [src |-> generateFallbackLetterSVG("A", "sans", random),
                     isFallback |-> TRUE])]

\* a detection that takes a failed probe for a found file
ProbeHitInverted(exists) == ~exists

\* `if (exists)` after a probe
ProbeHit(exists) == exists

\* an inner loop that resumes at the last template when the base changes
NextComboResumesLast(b, t, nT) ==
  IF t < nT THEN [b |-> b, t |-> t + 1] ELSE [b |-> b + 1, t |-> nT]

\* outer loops that leave out the base after the one they finished
NextComboSkipsBase(b, t, nT) ==
  IF t < nT THEN [b |-> b, t |-> t + 1] ELSE [b |-> b + 2, t |-> 1]

\* the loops' next combination after a miss at (b, t), nT templates
NextCombo(b, t, nT) ==
  IF t < nT THEN [b |-> b, t |-> t + 1] ELSE [b |-> b + 1, t |-> 1]

\* the end of initialize: fallback mode unless assets were detected
initializeEnd(this) ==
  [ (IF ~this.assetsDetected THEN [this EXCEPT !.basePath = "assets/"]
     ELSE this)
    EXCEPT !.initialized = TRUE, !.assetDetectionCompleted = TRUE ]

\* One turn of the production loops for the run at (b, t) whose probe
\* resolved to exists: [this, done, b, t, returns]
productionStep(this, b, t, exists) ==
  LET nB == Len(candidates.bases)
      nT == Len(candidates.templates)
      hit == ProbeHit(exists)
      this1 == IF hit
               THEN [this EXCEPT !.basePath = candidates.bases[b],
                                 !.workingPathPattern = candidates.templates[t],
                                 !.assetsDetected = TRUE]
               ELSE this
      innerDone == hit \/ NextCombo(b, t, nT).b # b
      outerDone == innerDone /\ (this1.assetsDetected \/ NextCombo(b, t, nT).b > nB)
  IN IF outerDone
     THEN [this |-> initializeEnd(this1), done |-> TRUE, b |-> b, t |-> t,
           returns |-> this1.assetsDetected]
     ELSE [this |-> this1, done |-> FALSE, b |-> NextCombo(b, t, nT).b,
           t |-> NextCombo(b, t, nT).t, returns |-> FALSE]

\* the base and the pattern the development branch derives from each
\* quick path
QuickBasePaths == [q \in DOMAIN quickPaths |-> QuickBasePath(quickPaths[q])]

QuickPatterns ==
  [q \in DOMAIN quickPaths |->
    QuickPattern(quickPaths[q], QuickBasePath(quickPaths[q]))]

\* One turn of the development loop for the run at quick path q
developmentStep(this, q, exists) ==
  LET hit == ProbeHit(exists)
      base == QuickBasePaths[q]
      this1 == IF hit
               THEN [this EXCEPT !.basePath = base,
                                 !.workingPathPattern = QuickPatterns[q]]
               ELSE this
  IN IF hit
     THEN [this |-> initializeEnd(this1), done |-> TRUE, b |-> 0, t |-> q,
           returns |-> this1.assetsDetected]
     ELSE IF q = Len(quickPaths)
     THEN [this |-> [this EXCEPT !.basePath = "assets/", !.initialized = TRUE,
                                 !.assetDetectionCompleted = TRUE],
           done |-> TRUE, b |-> 0, t |-> q, returns |-> FALSE]
     ELSE [this |-> this, done |-> FALSE, b |-> 0, t |-> q + 1,
           returns |-> FALSE]

\* the test path of every combination of the two lists
TestPaths ==
  [b \in DOMAIN possibleBasePaths |->
    [t \in DOMAIN pathTemplates |->
      TestPath(pathTemplates[t], possibleBasePaths[b])]]

\* the path the run at (b, t) probes
ProbePath(b, t) ==
  IF IsDevelopmentHost(hostname) THEN quickPaths[t] ELSE TestPaths[b][t]

CacheKey(req) ==
  req.city \o "_" \o req.style \o "_" \o req.letter \o "_" \o req.variant

\* [this, value]
_getFallbackLetter(this, char, style, random) ==
  IF char \in DOMAIN this.fallbackImages
  THEN [this |-> this, value |-> this.fallbackImages[char]]
  ELSE LET fallback == [src |-> generateFallbackLetterSVG(char, style, random),
                        isFallback |-> TRUE]
       IN [this |-> [this EXCEPT !.fallbackImages = MapSet(@, char, fallback)],
           value |-> fallback]

\* loadLetter without its in-flight check
AlreadyLoadingNever(this, key) == FALSE

\* `if (this.loadingPromises.has(cacheKey))`
AlreadyLoading(this, key) == key \in DOMAIN this.loadingPromises

\* `if (this.assetDetectionCompleted && !this.assetsDetected)`
KnownUnavailable(this) == this.assetDetectionCompleted /\ ~this.assetsDetected

\* The decoded size the image-loading primitive reports for a loaded file
DecodedSize == [width |-> 120, height |-> 180]

\* the letters the clients ask for
Cities == {"NYC"}

Styles == {"sans-upper"}

Letters == {"A", "B"}

Variants == {"01"}

Requests ==
  [city : Cities, style : Styles, letter : Letters, variant : Variants]

\* the patterns and the bases a detection can resolve
ResolvedPatterns ==
  {pathTemplates[t] : t \in DOMAIN pathTemplates} \cup
  {QuickPatterns[q] : q \in DOMAIN quickPaths}

ResolvedBases ==
  {possibleBasePaths[b] : b \in DOMAIN possibleBasePaths} \cup
  {QuickBasePaths[q] : q \in DOMAIN quickPaths} \cup {"assets/"}

\* pattern.replace('${base}', ...) ... .replace('${variant}', ...) of
\* _loadLetterImage, for every pattern, base and request
LetterPaths ==
  [pattern \in ResolvedPatterns |->
    [base \in ResolvedBases |->
      [req \in Requests |->
        _replacePlaceholders(pattern,
          PlaceholderValues(base, req.city, req.letter, req.style,
                            req.variant))]]]

\* the path _loadLetterImage requests
LetterPath(this, req) ==
  IF req \in Requests
  THEN LetterPaths[this.workingPathPattern][this.basePath][req]
  ELSE _replacePlaceholders(this.workingPathPattern,
         PlaceholderValues(this.basePath, req.city, req.letter, req.style,
                           req.variant))

(* loadLetter from `this.stats.requested++` on, up to its first suspension:
   [this, loads, outcome], outcome one of
     [kind |-> "return", value]            the call has returned value
     [kind |-> "await", id, role]          the call awaits load id          *)
loadLetterBody(this, loads, req, random) ==
  LET key == CacheKey(req)
      this1 == [this EXCEPT !.stats.requested = @ + 1]
  IN IF key \in DOMAIN this1.cache
     THEN [this |-> [this1 EXCEPT !.stats.cached = @ + 1], loads |-> loads,
           outcome |-> [kind |-> "return", value |-> this1.cache[key]]]
     ELSE IF AlreadyLoading(this1, key)
     THEN [this |-> this1, loads |-> loads,
           outcome |-> [kind |-> "await", id |-> this1.loadingPromises[key],
                        role |-> "coalesced"]]
     ELSE IF KnownUnavailable(this1)
     THEN LET f == _getFallbackLetter(this1, req.letter, req.style, random)
          IN [this |-> f.this, loads |-> loads,
              outcome |-> [kind |-> "return", value |-> f.value]]
     ELSE IF this1.workingPathPattern = Null
     THEN \* _loadLetterImage resolves at once; the continuation caches it
          LET f == _getFallbackLetter(this1, req.letter, req.style, random)
          IN [this |-> [f.this EXCEPT !.cache = MapSet(@, key, f.value)],
              loads |-> loads,
              outcome |-> [kind |-> "return", value |-> f.value]]
     ELSE LET id == Len(loads) + 1
          IN [this |-> [this1 EXCEPT !.loadingPromises = MapSet(@, key, id)],
              loads |-> Append(loads, [key |-> key, req |-> req,
                                       path |-> LetterPath(this1, req),
                                       state |-> "pending"]),
              outcome |-> [kind |-> "await", id |-> id, role |-> "initiator"]]

\* the continuation of loadLetter after its load resolved to letter
loadLetterResolved(this, key, letter) ==
  [this EXCEPT !.cache = MapSet(@, key, letter),
               !.loadingPromises = MapDel(@, key)]

\* getStats: the counters and the sizes of the maps
getStats(this) ==
  [requested |-> this.stats.requested, loaded |-> this.stats.loaded,
   failed |-> this.stats.failed, cached |-> this.stats.cached,
   cacheSize |-> Cardinality(DOMAIN this.cache),
   fallbacksCreated |-> Cardinality(DOMAIN this.fallbackImages),
   pendingLoads |-> Cardinality(DOMAIN this.loadingPromises),
   workingPathPattern |-> this.workingPathPattern,
   basePath |-> this.basePath, initialized |-> this.initialized,
   assetsDetected |-> this.assetsDetected]

\* a catch block that takes the request back instead of counting the failure
loadLetterRejectedUncounted(this, key, req, random) ==
  _getFallbackLetter(
    [this EXCEPT !.loadingPromises = MapDel(@, key),
                 !.stats.requested = @ - 1],
    req.letter, req.style, random)

\* a catch block that counts the failure once for the load and once for
\* the fallback
loadLetterRejectedTwice(this, key, req, random) ==
  _getFallbackLetter(
    [this EXCEPT !.loadingPromises = MapDel(@, key), !.stats.failed = @ + 2],
    req.letter, req.style, random)

\* the catch block of loadLetter: [this, value]
loadLetterRejected(this, key, req, random) ==
  _getFallbackLetter(
    [this EXCEPT !.loadingPromises = MapDel(@, key), !.stats.failed = @ + 1],
    req.letter, req.style, random)

---------------------------------------------------------------------------
(* Clients *)

NoReq == [city |-> "", style |-> "", letter |-> "", variant |-> ""]

NoResult == [kind |-> "none"]

Idle ==
  [ pc |-> "idle", op |-> "none", req |-> NoReq, path |-> "", run |-> 0,
    awaits |-> 0, late |-> FALSE, result |-> NoResult ]

Free(c) == call[c].pc \in {"idle", "returned"}

\* call[c] is a slot for one outstanding call: a new call takes the first
\* slot that holds none
CanCall(c) ==
  /\ Free(c)
  /\ \A d \in Callers : d < c => ~Free(d)
  /\ ncalls < MaxCalls

Returned(cr, result) == [cr EXCEPT !.pc = "returned", !.result = result]

\* a call after the synchronous part of loadLetter
Resume(cr, outcome) ==
  IF outcome.kind = "return"
  THEN Returned(cr, [kind |-> "value", value |-> outcome.value])
  ELSE [cr EXCEPT !.pc = IF outcome.role = "initiator" THEN "loading"
                         ELSE "coalesced",
                  !.awaits = outcome.id]

\* a detection run at its first probe; log and recorded are its history:
\* the probes that resolved, and the resolved base as its last turn left it
NewRun(c) ==
  [ owner |-> c, b |-> IF IsDevelopmentHost(hostname) THEN 0 ELSE 1, t |-> 1,
    log |-> <<>>, done |-> FALSE,
    recorded |-> [basePath |-> am.basePath,
                  workingPathPattern |-> am.workingPathPattern] ]

Waiting(c, id) ==
  call[c].awaits = id /\ call[c].pc \in {"loading", "coalesced", "waiting"}

---------------------------------------------------------------------------
(* AssetManager: the actions *)

\* a client calls assetManager.initialize()
AMInitialize(c) ==
  /\ component = "AssetManager"
  /\ CanCall(c)
  /\ ncalls' = ncalls + 1
  /\ LET cr == [Idle EXCEPT !.op = "initialize", !.late = am.initialized]
     IN IF InitializeGuard(am)
        THEN /\ call' = [call EXCEPT ![c] =
                  Returned(cr, [kind |-> "bool", flag |-> am.assetsDetected])]
             /\ UNCHANGED <<am, detections>>
        ELSE /\ \E random \in FilterIds : am' = initializeFallbackA(am, random)
             /\ detections' = Append(detections, NewRun(c))
             /\ call' = [call EXCEPT ![c] =
                  [cr EXCEPT !.pc = "probing", !.run = Len(detections) + 1]]
  /\ UNCHANGED <<uvars, tvars, component, hostname, candidates, amLoads, db, dbLoads>>

\* a client calls assetManager.loadLetter(city, style, letter, variant)
AMLoadLetter(c, req) ==
  /\ component = "AssetManager"
  /\ CanCall(c)
  /\ ncalls' = ncalls + 1
  /\ LET cr == [Idle EXCEPT !.op = "loadLetter", !.req = req,
                            !.late = am.initialized]
     IN IF ~am.initialized /\ ~InitializeGuard(am)
        THEN /\ \E random \in FilterIds : am' = initializeFallbackA(am, random)
             /\ detections' = Append(detections, NewRun(c))
             /\ call' = [call EXCEPT ![c] =
                  [cr EXCEPT !.pc = "probing", !.run = Len(detections) + 1]]
             /\ UNCHANGED amLoads
        ELSE \E random \in FilterIds :
             LET ll == loadLetterBody(am, amLoads, req, random)
             IN /\ am' = ll.this
                /\ amLoads' = ll.loads
                /\ call' = [call EXCEPT ![c] = Resume(cr, ll.outcome)]
                /\ UNCHANGED detections
  /\ UNCHANGED <<uvars, tvars, component, hostname, candidates, db, dbLoads>>

\* the probe a detection run awaits resolves to exists; the run goes on to
\* its next probe or ends, and a loadLetter that awaited it goes on
ProbeResolved(c, exists) ==
  /\ component = "AssetManager"
  /\ call[c].pc = "probing"
  /\ LET r == call[c].run
         d == detections[r]
         step == IF IsDevelopmentHost(hostname)
                 THEN developmentStep(am, d.t, exists)
                 ELSE productionStep(am, d.b, d.t, exists)
         entry == [b |-> d.b, t |-> d.t, path |-> ProbePath(d.b, d.t),
                   ok |-> exists]
     IN /\ detections' = [detections EXCEPT ![r] =
              [d EXCEPT !.log = Append(@, entry), !.b = step.b, !.t = step.t,
                        !.done = step.done,
                        !.recorded =
                          [basePath |-> step.this.basePath,
                           workingPathPattern |-> step.this.workingPathPattern]]]
        /\ IF ~step.done
           THEN am' = step.this /\ UNCHANGED <<call, amLoads>>
           ELSE IF call[c].op = "initialize"
           THEN /\ am' = step.this
                /\ call' = [call EXCEPT ![c] =
                     Returned(@, [kind |-> "bool", flag |-> step.returns])]
                /\ UNCHANGED amLoads
           ELSE \E random \in FilterIds :
                LET ll == loadLetterBody(step.this, amLoads, call[c].req,
                                         random)
                IN /\ am' = ll.this
                   /\ amLoads' = ll.loads
                   /\ call' = [call EXCEPT ![c] = Resume(@, ll.outcome)]
  /\ UNCHANGED <<uvars, tvars, component, hostname, candidates, db, dbLoads, ncalls>>

\* _checkFileExists: img.onload
AMProbeOnload(c) == ProbeResolved(c, TRUE)

\* _checkFileExists: img.onerror
AMProbeOnerror(c) == ProbeResolved(c, FALSE)

\* _checkFileExists: the 1000 ms timer
AMProbeTimeout(c) == ProbeResolved(c, FALSE)

\* _loadLetterImage: img.onload, then the continuations of the awaiting calls
AMImageOnload(id) ==
  /\ component = "AssetManager"
  /\ id \in 1..Len(amLoads)
  /\ amLoads[id].state = "pending"
  /\ LET l == amLoads[id]
         letter == [src |-> l.path, width |-> DecodedSize.width,
                    height |-> DecodedSize.height, isFallback |-> FALSE]
     IN /\ amLoads' = [amLoads EXCEPT ![id].state = "loaded"]
        /\ am' = loadLetterResolved([am EXCEPT !.stats.loaded = @ + 1],
                                    l.key, letter)
        /\ call' = [c \in Callers |->
             IF Waiting(c, id)
             THEN Returned(call[c], [kind |-> "value", value |-> letter])
             ELSE call[c]]
  /\ UNCHANGED <<uvars, tvars, component, hostname, candidates, detections, db, dbLoads,
                 ncalls>>

\* _loadLetterImage: img.onerror rejects; the call that started the load
\* catches, a call handed the pending promise does not
AMImageOnerror(id) ==
  /\ component = "AssetManager"
  /\ id \in 1..Len(amLoads)
  /\ amLoads[id].state = "pending"
  /\ \E random \in FilterIds :
     LET l == amLoads[id]
         f == loadLetterRejected(am, l.key, l.req, random)
     IN /\ amLoads' = [amLoads EXCEPT ![id].state = "errored"]
        /\ am' = f.this
        /\ call' = [c \in Callers |->
             IF Waiting(c, id)
             THEN IF call[c].pc = "loading"
                  THEN Returned(call[c], [kind |-> "value", value |-> f.value])
                  ELSE Returned(call[c],
                         [kind |-> "rejected",
                          error |-> "Failed to load image: " \o l.path])
             ELSE call[c]]
  /\ UNCHANGED <<uvars, tvars, component, hostname, candidates, detections, db, dbLoads,
                 ncalls>>

AMNext ==
  \/ \E c \in Callers : AMInitialize(c)
  \/ \E c \in Callers, req \in Requests : AMLoadLetter(c, req)
  \/ \E c \in Callers : AMProbeOnload(c)
  \/ \E c \in Callers : AMProbeOnerror(c)
  \/ \E c \in Callers : AMProbeTimeout(c)
  \/ \E id \in 1..Len(amLoads) : AMImageOnload(id)
  \/ \E id \in 1..Len(amLoads) : AMImageOnerror(id)

---------------------------------------------------------------------------
(* scripts/database.js: LetterDatabase.loadImage.  The file defines the
   class twice; db.version tells which definition an instance is of. *)

RemotePath == "assets/Alphabet/cities/NYC/alphabet/A/sans-upper/01.jpg"

DBPaths == {"", RemotePath, generateFallbackLetterSVG("A", "sans-upper", 0)}

LetterDatabaseNew(version) ==
  IF version = 1
  THEN [version |-> 1, letterCache |-> EmptyMap, loadingPromises |-> EmptyMap,
        pathExistsCache |-> EmptyMap, assetsDetected |-> FALSE]
  ELSE [version |-> 2, letterCache |-> EmptyMap, loadingPromises |-> EmptyMap]

_createMinimalImageObject ==
  [width |-> 40, height |-> 60, naturalWidth |-> 40, naturalHeight |-> 60]

\* an Image whose src was set and that has not loaded (yet)
NewImage(src) == [src |-> src, width |-> 0, height |-> 0]

\* an Image after its load event
LoadedImage(src) ==
  IF StartsWith(src, "data:")
  THEN [src |-> src, width |-> 40, height |-> 60]
  ELSE [src |-> src, width |-> DecodedSize.width, height |-> DecodedSize.height]

\* the request a load issues: the first definition adds a cache buster
ImageSrc(version, path) == IF version = 1 THEN path \o "?t=now" ELSE path

\* `if (this.loadingPromises[path])`
DBAlreadyLoading(this, path) == path \in DOMAIN this.loadingPromises

\* a load started by loadImage: its promise, its timer and its Image
NewLoad(version, path) ==
  [ path |-> path, src |-> ImageSrc(version, path), promise |-> "pending",
    value |-> NoResult, timer |-> "armed", img |-> "pending" ]

(* loadImage up to its return: [this, loads, outcome], outcome one of
     [kind |-> "return", result]     the call has returned
     [kind |-> "await", id]          the call returned the promise of load id *)
loadImage1(this, loads, path) ==
  IF path = ""
  THEN [this |-> this, loads |-> loads,
        outcome |-> [kind |-> "return", result |-> [kind |-> "null"]]]
  ELSE IF StartsWith(path, "data:image/svg+xml")
  THEN [this |-> this, loads |-> loads,
        outcome |-> [kind |-> "return",
                     result |-> [kind |-> "value", value |-> NewImage(path)]]]
  ELSE IF path \in DOMAIN this.letterCache
  THEN [this |-> this, loads |-> loads,
        outcome |-> [kind |-> "return",
                     result |-> [kind |-> "value",
                                 value |-> this.letterCache[path]]]]
  ELSE IF DBAlreadyLoading(this, path)
  THEN [this |-> this, loads |-> loads,
        outcome |-> [kind |-> "await", id |-> this.loadingPromises[path]]]
  ELSE [this |-> [this EXCEPT !.loadingPromises =
                    MapSet(@, path, Len(loads) + 1)],
        loads |-> Append(loads, NewLoad(1, path)),
        outcome |-> [kind |-> "await", id |-> Len(loads) + 1]]

loadImage2(this, loads, path) ==
  IF path = ""
  THEN [this |-> this, loads |-> loads,
        outcome |-> [kind |-> "return",
                     result |-> [kind |-> "value",
                                 value |-> _createMinimalImageObject]]]
  ELSE IF path \in DOMAIN this.letterCache
  THEN [this |-> this, loads |-> loads,
        outcome |-> [kind |-> "return",
                     result |-> [kind |-> "value",
                                 value |-> this.letterCache[path]]]]
  ELSE IF DBAlreadyLoading(this, path)
  THEN [this |-> this, loads |-> loads,
        outcome |-> [kind |-> "await", id |-> this.loadingPromises[path]]]
  ELSE \* the data: branch and the file branch arm the same timer and handlers
       [this |-> [this EXCEPT !.loadingPromises =
                    MapSet(@, path, Len(loads) + 1)],
        loads |-> Append(loads, NewLoad(2, path)),
        outcome |-> [kind |-> "await", id |-> Len(loads) + 1]]

loadImage(this, loads, path) ==
  IF this.version = 1 THEN loadImage1(this, loads, path)
  ELSE loadImage2(this, loads, path)

\* resolve / reject of a promise: no effect once it is settled
Settle(l, promise, value) ==
  IF l.promise = "pending" THEN [l EXCEPT !.promise = promise, !.value = value]
  ELSE l

\* what the failure handlers (timeout, img.onerror) settle the promise with
FailureSettlement(version, l) ==
  IF version = 1
  THEN Settle(l, "rejected", NoResult)
  ELSE Settle(l, "resolved", _createMinimalImageObject)

\* the 5000 ms timer of a load: [this, load]
loadImageTimeout(this, l) ==
  [ this |-> [this EXCEPT !.loadingPromises = MapDel(@, l.path)],
    load |-> FailureSettlement(this.version, [l EXCEPT !.timer = "fired"]) ]

\* img.onload of a load
loadImageOnload(this, l) ==
  LET img == LoadedImage(l.src)
  IN [ this |-> [this EXCEPT !.letterCache = MapSet(@, l.path, img),
                             !.loadingPromises = MapDel(@, l.path)],
       load |-> Settle([l EXCEPT !.img = "loaded",
                                 !.timer = IF @ = "armed" THEN "cleared" ELSE @],
                       "resolved", img) ]

\* img.onerror of a load
loadImageOnerror(this, l) ==
  [ this |-> [this EXCEPT !.loadingPromises = MapDel(@, l.path)],
    load |-> FailureSettlement(this.version,
               [l EXCEPT !.img = "errored",
                         !.timer = IF @ = "armed" THEN "cleared" ELSE @]) ]

\* the calls that await load id get what its promise was settled with
Deliver(id, l) ==
  [c \in Callers |->
     IF Waiting(c, id) /\ l.promise # "pending"
     THEN Returned(call[c], IF l.promise = "rejected"
                            THEN [kind |-> "rejected", error |-> l.path]
                            ELSE [kind |-> "value", value |-> l.value])
     ELSE call[c]]

---------------------------------------------------------------------------
(* LetterDatabase: the actions *)

\* a client calls database.loadImage(path)
DBLoadImage(c, path) ==
  /\ component = "LetterDatabase"
  /\ CanCall(c)
  /\ ncalls' = ncalls + 1
  /\ LET r == loadImage(db, dbLoads, path)
         cr == [Idle EXCEPT !.op = "loadImage", !.path = path]
     IN /\ db' = r.this
        /\ dbLoads' = r.loads
        /\ call' = [call EXCEPT ![c] =
             IF r.outcome.kind = "return"
             THEN Returned(cr, r.outcome.result)
             ELSE [cr EXCEPT !.pc = "waiting", !.awaits = r.outcome.id]]
  /\ UNCHANGED <<uvars, tvars, component, hostname, candidates, am, amLoads, detections>>

DBEvent(id, r) ==
  /\ db' = r.this
  /\ dbLoads' = [dbLoads EXCEPT ![id] = r.load]
  /\ call' = Deliver(id, r.load)
  /\ UNCHANGED <<uvars, tvars, component, hostname, candidates, am, amLoads, detections,
                 ncalls>>

\* the timer of load id fires
DBTimeout(id) ==
  /\ component = "LetterDatabase"
  /\ id \in 1..Len(dbLoads)
  /\ dbLoads[id].timer = "armed"
  /\ DBEvent(id, loadImageTimeout(db, dbLoads[id]))

\* the Image of load id loads; the timer may have fired before
DBImageOnload(id) ==
  /\ component = "LetterDatabase"
  /\ id \in 1..Len(dbLoads)
  /\ dbLoads[id].img = "pending"
  /\ DBEvent(id, loadImageOnload(db, dbLoads[id]))

\* the Image of load id fails; the timer may have fired before
DBImageOnerror(id) ==
  /\ component = "LetterDatabase"
  /\ id \in 1..Len(dbLoads)
  /\ dbLoads[id].img = "pending"
  /\ DBEvent(id, loadImageOnerror(db, dbLoads[id]))

DBNext ==
  \/ \E c \in Callers, path \in DBPaths : DBLoadImage(c, path)
  \/ \E id \in 1..Len(dbLoads) : DBTimeout(id)
  \/ \E id \in 1..Len(dbLoads) : DBImageOnload(id)
  \/ \E id \in 1..Len(dbLoads) : DBImageOnerror(id)

---------------------------------------------------------------------------
(* scripts/database.js: the variant catalog of LetterDatabase.  A probe is
   an Image whose load event tells that the path exists; net tells, for the
   session, which paths the server has (present) and which of them answer
   only after the probe timers have fired (slow). *)

\* the paths _checkForAssets tests, in its order
testCases ==
  << "assets/Alphabet/cities/NYC/alphabet/A/sans-upper/01.jpg",
     "assets/alphabet/NYC/A/sans-upper/01.jpg",
     "assets/alphabet/cities/NYC/alphabet/A/sans-upper/01.jpg",
     "assets/Alphabet/cities/NYC/alphabet/a/sans-lower/01.jpg",
     "assets/alphabet/NYC/a/sans-lower/01.jpg",
     "assets/Alphabet/cities/NYC/alphabet/A/serif-upper/01.jpg",
     "assets/alphabet/NYC/A/serif-upper/01.jpg",
     "assets/A/sans-upper/01.jpg",
     "assets/alphabet/A/sans-upper/01.jpg",
     "assets/Numbers/1/01.jpg",
     "assets/numbers/1/01.jpg",
     "assets/Symbols/period/01.jpg",
     "assets/symbols/period/01.jpg",
     "assets/Symbols/exclamation/01.jpg" >>

\* static styleFolderMap of the two definitions
styleFolderMap(version) ==
  IF version = 1
  THEN [sans |-> "sans", serif |-> "serif", mono |-> "monospace",
        script |-> "script", decorative |-> "decorative", random |-> "sans"]
  ELSE [sans |-> "sans", serif |-> "serif", mono |-> "monospace",
        script |-> "script", decorative |-> "decorative"]

\* symbolMap of getLetterPath
symbolMap ==
  ("!" :> "exclamation")
  @@ ("?" :> "question")
  @@ ("." :> "period")
  @@ ("," :> "comma")
  @@ (":" :> "colon")
  @@ (";" :> "semicolon")
  @@ ("\"" :> "quote")
  @@ ("'" :> "apostrophe")
  @@ ("(" :> "parenthesis-open")
  @@ (")" :> "parenthesis-close")
  @@ ("[" :> "bracket-open")
  @@ ("]" :> "bracket-close")
  @@ ("{" :> "brace-open")
  @@ ("}" :> "brace-close")
  @@ ("<" :> "angle-open")
  @@ (">" :> "angle-close")
  @@ ("+" :> "plus")
  @@ ("-" :> "minus")
  @@ ("*" :> "asterisk")
  @@ ("/" :> "slash")
  @@ ("\\" :> "backslash")
  @@ ("|" :> "vertical-bar")
  @@ ("=" :> "equals")
  @@ ("@" :> "at")
  @@ ("#" :> "hash")
  @@ ("$" :> "dollar")
  @@ ("%" :> "percent")
  @@ ("^" :> "caret")
  @@ ("&" :> "ampersand")
  @@ ("_" :> "underscore")

\* `symbolName = 'symbol'; if (character in symbolMap) symbolName = symbolMap[character]`
symbolName(character) ==
  IF character \in DOMAIN symbolMap THEN symbolMap[character] ELSE "symbol"

\* the path of a letter's variant, both definitions alike
AlphabetPath(character, styleDir, location, variantIndex) ==
  "assets/Alphabet/cities/" \o location \o "/alphabet/"
    \o toUpperCaseChar(character) \o "/" \o styleDir \o "-"
    \o CaseOf(character) \o "/" \o PadStart2(variantIndex) \o ".jpg"

\* `if (!styleDir)`
UnknownStyle(version, styleKey) == styleKey \notin DOMAIN styleFolderMap(version)

\* a getLetterPath that takes an unknown style key for the folder name
getLetterPath1Lenient(character, styleKey, location, variantIndex) ==
  [value |-> AlphabetPath(character, styleKey, location, variantIndex),
   error |-> ""]

(* getLetterPath: [value, error], value the path or Null, error what
   console.error was called with ("" if it was not) *)
getLetterPath1(character, styleKey, location, variantIndex) ==
  IF IsNumber(character)
  THEN [value |-> "assets/Numbers/" \o character \o "/"
                    \o PadStart2(variantIndex) \o ".jpg",
        error |-> ""]
  ELSE IF IsSymbol(character)
  THEN [value |-> "assets/Symbols/" \o symbolName(character) \o "/"
                    \o PadStart2(variantIndex) \o ".jpg",
        error |-> ""]
  ELSE IF IsLetter(character)
  THEN IF UnknownStyle(1, styleKey)
       THEN [value |-> Null, error |-> "Unknown style key: " \o styleKey]
       ELSE [value |-> AlphabetPath(character, styleFolderMap(1)[styleKey],
                                    location, variantIndex),
             error |-> ""]
  ELSE [value |-> Null, error |-> ""]

getLetterPath2(character, styleKey, location, variantIndex) ==
  IF character = "" \/ styleKey = "" \/ location = ""
  THEN [value |-> Null, error |-> ""]
  ELSE IF ~IsAlphanumeric(character)
  THEN [value |-> Null, error |-> ""]
  ELSE IF UnknownStyle(2, styleKey)
  THEN [value |-> Null,
        error |-> "[PATH BUILD] Unknown style key: \"" \o styleKey \o "\""]
  ELSE [value |-> AlphabetPath(character, styleFolderMap(2)[styleKey],
                               location, variantIndex),
        error |-> ""]

getLetterPath(version, character, styleKey, location, variantIndex) ==
  IF version = 1
  THEN getLetterPath1(character, styleKey, location, variantIndex)
  ELSE getLetterPath2(character, styleKey, location, variantIndex)

\* `this.pathExistsCache.checked`
Checked(this) ==
  "checked" \in DOMAIN this.pathExistsCache /\ this.pathExistsCache["checked"]

\* what a probe of path resolves to: the load event, or else the error
\* event or the timer
ProbeOutcome(net, path) ==
  IF path \in net.present /\ path \notin net.slow THEN "onload"
  ELSE IF path \in net.present THEN "timeout"
  ELSE "onerror"

\* a catalog that never takes its asset check for failed
KnowsNoAssetsNever(this) == FALSE

\* `if (this.pathExistsCache.checked && !this.assetsDetected)`
KnowsNoAssets(this) == Checked(this) /\ ~this.assetsDetected

(* pathExists through its await: [this, value, probed, late]; probed tells
   that an Image was requested, late that its timer fired and its load
   event is still to come *)
pathExists1(this, net, path) ==
  IF path \in DOMAIN this.pathExistsCache
  THEN [this |-> this, value |-> this.pathExistsCache[path],
        probed |-> FALSE, late |-> FALSE]
  ELSE IF KnowsNoAssets(this)
  THEN [this |-> this, value |-> FALSE, probed |-> FALSE, late |-> FALSE]
  ELSE LET outcome == ProbeOutcome(net, path)
       IN [this |-> [this EXCEPT !.pathExistsCache =
                       MapSet(@, path, outcome = "onload")],
           value |-> outcome = "onload", probed |-> TRUE,
           late |-> outcome = "timeout"]

\* the second definition keeps no cache and cancels the request on timeout
pathExists2(this, net, path) ==
  IF path = ""
  THEN [this |-> this, value |-> FALSE, probed |-> FALSE, late |-> FALSE]
  ELSE [this |-> this, value |-> ProbeOutcome(net, path) = "onload",
        probed |-> TRUE, late |-> FALSE]

pathExists(this, net, path) ==
  IF this.version = 1 THEN pathExists1(this, net, path)
  ELSE pathExists2(this, net, path)

\* _getFontFamilyForStyle
_getFontFamilyForStyle(style) ==
  CASE style = "sans" -> "Arial, Helvetica, sans-serif"
    [] style = "serif" -> "Georgia, \"Times New Roman\", serif"
    [] style = "monospace" -> "\"Courier New\", Courier, monospace"
    [] style = "script" -> "\"Comic Sans MS\", cursive, sans-serif"
    [] style = "decorative" -> "Impact, fantasy"
    [] OTHER -> "sans-serif"

\* getFallbackPath of the second definition: the data URL of an inline SVG,
\* as what it is rendered from
getFallbackPath(character, styleKey) ==
  LET char == IF IsAlphanumeric(character) THEN character ELSE "?"
      styleDir == IF styleKey \in DOMAIN styleFolderMap(2)
                  THEN styleFolderMap(2)[styleKey] ELSE "sans"
  IN "data:image/svg+xml;charset=utf-8," \o _getFontFamilyForStyle(styleDir)
       \o ":" \o char

\* a variant lookup in progress: the catalog, what it found, the paths it
\* probed, the errors it logged, the probes whose load event is late, and
\* what each call of pathExists resolved to
Lookup(this) ==
  [this |-> this, found |-> <<>>, probed |-> <<>>, errors |-> <<>>,
   late |-> {}, answers |-> <<>>]

\* the lookup st after getLetterPath gave p: its console.error, if any
logError(st, p) ==
  IF p.error = "" THEN st ELSE [st EXCEPT !.errors = Append(@, p.error)]

\* the lookup st after pathExists answered e for path
probeAnswered(st, path, e) ==
  [st EXCEPT !.this = e.this,
             !.found = IF e.value THEN Append(@, path) ELSE @,
             !.probed = IF e.probed THEN Append(@, path) ELSE @,
             !.late = IF e.late THEN @ \cup {path} ELSE @,
             !.answers = Append(@, [path |-> path, value |-> e.value,
                                    probed |-> e.probed, late |-> e.late])]

\* `if (path && await this.pathExists(path)) found.push(path)`
probePath(st, net, p) ==
  IF p.value = Null THEN st
  ELSE probeAnswered(st, p.value, pathExists(st.this, net, p.value))

\* one turn of the loops of getLetterVariants, for the path p that
\* getLetterPath gave
probeTurn(st, net, p) == probePath(logError(st, p), net, p)

\* one turn of the loops of getLetterVariants, for variant index i
probeVariant(st, net, character, styleKey, location, i) ==
  probeTurn(st, net,
            getLetterPath(st.this.version, character, styleKey, location, i))

\* the turns for the variant indices i..n
RECURSIVE probeVariants(_, _, _, _, _, _, _)
probeVariants(st, net, character, styleKey, location, i, n) ==
  IF i > n THEN st
  ELSE probeVariants(probeVariant(st, net, character, styleKey, location, i),
                     net, character, styleKey, location, i + 1, n)

\* `if (found.length === 0 && !skipFallback)`
FallbackWanted(found, skipFallback) == found = <<>> /\ ~skipFallback

\* the end of getLetterVariants: the lookup st, with the synthesized glyph
\* as its only entry if the fallback is wanted
withFallback(st, skipFallback, fallback) ==
  IF FallbackWanted(st.found, skipFallback)
  THEN [st EXCEPT !.found = << fallback >>]
  ELSE st

(* getLetterVariants of the first definition through its awaits: a Lookup
   whose found is the value returned *)
getLetterVariants1(this, net, character, styleKey, location, skipFallback, random) ==
  IF KnowsNoAssets(this) /\ ~skipFallback
  THEN [Lookup(this) EXCEPT !.found =
          << generateFallbackLetterSVG(character,
               styleKey \o "-" \o CaseOf(character), random) >>]
  ELSE withFallback(
         \* the branch for numbers and symbols probes index 1 and then 2
         \* and 3 if getLetterPath gave a path for index 1, the branch
         \* for letters each index that has a path
         IF (IsNumber(character) \/ IsSymbol(character))
            /\ getLetterPath1(character, styleKey, location, 1).value = Null
         THEN Lookup(this)
         ELSE probeVariants(Lookup(this), net, character, styleKey,
                            location, 1, 3),
         skipFallback,
         generateFallbackLetterSVG(character,
           IF IsLetter(character) THEN styleKey \o "-" \o CaseOf(character)
           ELSE styleKey,
           random))

\* the second definition has no skipFallback parameter
getLetterVariants2(this, net, character, styleKey, location) ==
  withFallback(probeVariants(Lookup(this), net, character, styleKey,
                             location, 1, 5),
               FALSE, getFallbackPath(character, styleKey))

getLetterVariants(this, net, character, styleKey, location, skipFallback, random) ==
  IF this.version = 1
  THEN getLetterVariants1(this, net, character, styleKey, location,
                          skipFallback, random)
  ELSE getLetterVariants2(this, net, character, styleKey, location)

\* one turn of the loop of _checkForAssets, for test case i: [this, late]
_checkForAssets(this, net, i) ==
  LET e == pathExists1(this, net, testCases[i])
      this1 == IF e.value THEN [e.this EXCEPT !.assetsDetected = TRUE]
               ELSE e.this
  IN [this |-> IF i = Len(testCases)
               THEN [this1 EXCEPT !.pathExistsCache = MapSet(@, "checked", TRUE)]
               ELSE this1,
      late |-> IF e.late THEN {testCases[i]} ELSE {}]

\* _checkForAssets from test case i on, through its awaits: [this, late]
checkTurn(r, e) == [this |-> e.this, late |-> r.late \cup e.late]

RECURSIVE checkForAssetsFrom(_, _, _)
checkForAssetsFrom(r, net, i) ==
  IF i > Len(testCases) THEN r
  ELSE checkForAssetsFrom(checkTurn(r, _checkForAssets(r.this, net, i)),
                          net, i + 1)

---------------------------------------------------------------------------
(* The variant catalog: the actions *)

\* the candidates of 'A' in style sans for NYC
VariantA(i) == AlphabetPath("A", "sans", "NYC", i)

\* the servers of the model: without assets; with variants 01, 03 and 04 of
\* 'A' and a digit; with variant 02 of 'A' alone, which no test case of
\* _checkForAssets names; with variants 01 and 02 of 'A', 01 answering late
Nets ==
  { [present |-> {}, slow |-> {}],
    [present |-> {VariantA(1), VariantA(3), VariantA(4),
                  "assets/Numbers/1/01.jpg"},
     slow |-> {}],
    [present |-> {VariantA(2)}, slow |-> {}],
    [present |-> {VariantA(1), VariantA(2)}, slow |-> {VariantA(1)}] }

\* the arguments the clients of getLetterVariants pass
LookupCharacters == {"A", "1"}

LookupStyles == {"sans", "gothic"}

\* the constructor of the first definition has started _checkForAssets;
\* the second definition has none
CheckStart(version) == IF version = 1 THEN 1 ELSE Len(testCases) + 1

\* the probe of test case `check` resolves and _checkForAssets goes on to
\* the next test case, or ends
DBCheckForAssets ==
  /\ component = "VariantCatalog"
  /\ db.version = 1
  /\ check <= Len(testCases)
  /\ LET r == _checkForAssets(db, server, check)
     IN /\ db' = r.this
        /\ late' = late \cup r.late
  /\ check' = check + 1
  /\ UNCHANGED <<uvars, component, hostname, candidates, am, amLoads, detections,
                 dbLoads, call, ncalls, server, config, lookups, sel, tm>>

\* the load event of a probe whose timer has fired
DBProbeLateOnload(path) ==
  /\ component \in {"VariantCatalog", "LetterSelector"}
  /\ path \in late
  /\ db' = [db EXCEPT !.pathExistsCache = MapSet(@, path, TRUE)]
  /\ late' = late \ {path}
  /\ sel' = [sel EXCEPT !.twin.this =
               IF @.version = 1
               THEN [@ EXCEPT !.pathExistsCache = MapSet(@, path, TRUE)]
               ELSE @]
  /\ UNCHANGED <<uvars, component, hostname, candidates, am, amLoads, detections,
                 dbLoads, call, ncalls, server, config, check, lookups, tm>>

\* getLetterVariants returns r to the client that awaits it
DBLookupReturns(character, styleKey, skipFallback, r) ==
  /\ db' = r.this
  /\ late' = late \cup r.late
  /\ lookups' = Append(lookups,
       [character |-> character, styleKey |-> styleKey,
        location |-> "NYC", skipFallback |-> skipFallback,
        version |-> db.version,
        knewNoAssets |-> db.version = 1 /\ KnowsNoAssets(db),
        value |-> r.found, probed |-> r.probed, errors |-> r.errors,
        answers |-> r.answers])

\* a client calls database.getLetterVariants and awaits the result
DBGetLetterVariants(character, styleKey, skipFallback) ==
  /\ component = "VariantCatalog"
  /\ Len(lookups) < MaxLookups
  /\ \E random \in FilterIds :
       DBLookupReturns(character, styleKey, skipFallback,
         getLetterVariants(db, server, character, styleKey, "NYC",
                           skipFallback, random))
  /\ UNCHANGED <<uvars, component, hostname, candidates, am, amLoads, detections,
                 dbLoads, call, ncalls, server, config, check, sel, tm>>

CatalogNext ==
  \/ DBCheckForAssets
  \/ \E path \in late : DBProbeLateOnload(path)
  \/ \E character \in LookupCharacters, styleKey \in LookupStyles,
        skipFallback \in BOOLEAN :
       DBGetLetterVariants(character, styleKey, skipFallback)

---------------------------------------------------------------------------
(* scripts/letterSelector.js: LetterSelector.  The selector awaits one
   operation at a time; a step below is one turn of its loop, through the
   awaits of the turn. *)

availableStyles == {"sans", "serif", "mono", "script", "decorative"}

\* String.prototype.includes
Includes(s, sub) == IndexOf(s, sub) > 0

\* a classification that takes no character for a space
IsSpaceNever(ch) == FALSE

\* `char === ' '`
IsSpace(ch) == ch = " "

\* `!img || !img.width || !img.height`, for an image object
HasSize(img) ==
  /\ "width" \in DOMAIN img /\ "height" \in DOMAIN img
  /\ img.width # 0 /\ img.height # 0

\* the object the catch blocks and img.onerror build in place of an image
fallbackImg ==
  [width |-> 40, height |-> 60, naturalWidth |-> 40, naturalHeight |-> 60]

\* what createPlaceholderImage resolves to when the PNG of its canvas loads
\* (onload) or does not (onerror)
createPlaceholderImage(char, style, event) ==
  IF event = "onload"
  THEN [src |-> "data:image/png;base64," \o char, width |-> 40, height |-> 60]
  ELSE fallbackImg

\* the Image of load id reports: e is [this, load] as the handler leaves them
loadImageReported(r, id, e) ==
  [this |-> e.this,
   loads |-> [r.loads EXCEPT ![id] = e.load],
   result |-> IF e.load.promise = "rejected"
              THEN [kind |-> "rejected", error |-> e.load.path]
              ELSE [kind |-> "value", value |-> e.load.value]]

\* the await of what loadImage returned, r
loadImageSettled(r, event) ==
  IF r.outcome.kind = "return"
  THEN [this |-> r.this, loads |-> r.loads, result |-> r.outcome.result]
  ELSE loadImageReported(r, r.outcome.id,
         IF event = "onload"
         THEN loadImageOnload(r.this, r.loads[r.outcome.id])
         ELSE IF event = "onerror"
         THEN loadImageOnerror(r.this, r.loads[r.outcome.id])
         ELSE loadImageTimeout(r.this, r.loads[r.outcome.id]))

(* loadImage through its await: [this, loads, result]; event is what the
   Image of a load this call starts, or of the load it joins, reports *)
loadImageAwaited(this, loads, path, event) ==
  loadImageSettled(loadImage(this, loads, path), event)

\* a placeholder descriptor that is not flagged as a fallback
placeholderLetterUnflagged(char, image, style) ==
  [type |-> "letter", value |-> char, image |-> image, isFallback |-> FALSE,
   style |-> style]

\* the descriptor of a character that has no image of its own
placeholderLetter(char, image, style) ==
  [type |-> "letter", value |-> char, image |-> image, isFallback |-> TRUE,
   style |-> style]

\* the history of a turn: the character and the style looked up, the
\* variants the lookup gave, the paths it probed, the path loaded, whether
\* the lookup or the load failed for the selector, and whether the
\* environment failed it
NoTurn ==
  [character |-> "", style |-> "", variants |-> <<>>, path |-> "",
   failed |-> FALSE, probed |-> <<>>, fault |-> FALSE]

\* a turn of the selector's loop at its start
turnStart(this, loads) ==
  [this |-> this, loads |-> loads, late |-> {}, letter |-> [type |-> "none"],
   turn |-> NoTurn]

\* an outer catch that stores the style option of the call, "random" in
\* random mode, instead of the default style
placeholderTurnKeepsMode(st, turn, char, style, randomMode, env) ==
  [st EXCEPT
     !.letter =
       IF env.placeholder = "throws"
       THEN placeholderLetter(char, fallbackImg,
                              IF randomMode THEN "random" ELSE style)
       ELSE placeholderLetter(char,
              createPlaceholderImage(char, style, env.placeholder), style),
     !.turn = turn]

\* the placeholder branches, and the outer catch if createPlaceholderImage
\* throws
placeholderTurn(st, turn, char, style, randomMode, env) ==
  [st EXCEPT
     !.letter =
       IF env.placeholder = "throws"
       THEN placeholderLetter(char, fallbackImg,
                              IF randomMode THEN "sans" ELSE style)
       ELSE placeholderLetter(char,
              createPlaceholderImage(char, style, env.placeholder), style),
     !.turn = turn]

\* the turn after `img = await this.database.loadImage(path)` gave ld
loadedTurn(st, turn, char, style, randomMode, env, path, ld) ==
  IF ld.result.kind # "value" \/ ~HasSize(ld.result.value)
  THEN placeholderTurn([st EXCEPT !.this = ld.this, !.loads = ld.loads],
                       [turn EXCEPT !.path = path, !.failed = TRUE],
                       char, style, randomMode, env)
  ELSE [st EXCEPT !.this = ld.this, !.loads = ld.loads,
                  !.letter =
                    [type |-> "letter", value |-> char, path |-> path,
                     image |-> ld.result.value,
                     isFallback |-> Includes(path, "/fallback/"),
                     style |-> style],
                  !.turn = [turn EXCEPT !.path = path]]

\* the turn after `variants = await this.database.getLetterVariants(...)`;
\* v is the Lookup it returned, the empty Lookup if it threw or gave nothing
lookedUpTurn(st, char, style, randomMode, env, v) ==
  LET st1 == [st EXCEPT !.this = v.this, !.late = v.late]
      turn1 == [NoTurn EXCEPT !.character = char, !.style = style,
                              !.variants = v.found,
                              !.probed = v.probed,
                              !.failed = env.lookup # "returns"]
  IN IF v.found = <<>>
     THEN placeholderTurn(st1, turn1, char, style, randomMode, env)
     ELSE loadedTurn(st1, turn1, char, style, randomMode, env,
                     v.found[env.index],
                     loadImageAwaited(v.this, st.loads, v.found[env.index],
                                      env.event))

(* One turn of the loop of selectLettersForText (randomMode FALSE) or of
   selectLettersWithRandomStyles (randomMode TRUE) for char in style:
   [this, loads, late, letter, turn].  env is what the environment does in
   this turn:
     lookup       "returns" | "throws" | "nothing": getLetterVariants of the
                  database the selector was constructed with
     random       the filter id of a glyph the lookup synthesizes
     index        Math.floor(Math.random() * variants.length) + 1
     event        what the Image of loadImage reports; the server may fail
                  any one request
     placeholder  "onload" | "onerror" | "throws": createPlaceholderImage *)
selectLetter(this, loads, net, char, style, location, randomMode, env) ==
  IF IsSpace(char)
  THEN [turnStart(this, loads) EXCEPT
          !.letter = [type |-> "space", value |-> char]]
  ELSE IF ~IsAlphanumeric(char)
  THEN [turnStart(this, loads) EXCEPT
          !.letter = [type |-> "special", value |-> char]]
  ELSE lookedUpTurn(turnStart(this, loads), char, style, randomMode, env,
         IF env.lookup = "returns"
         THEN getLetterVariants(this, net, char, style, location, FALSE,
                                env.random)
         ELSE Lookup(this))

---------------------------------------------------------------------------
(* LetterSelector: the actions *)

\* what the clients pass to getSelectedLetters: no object, or the options
NullOptions == [kind |-> "null"]

\* the texts the clients have resolved in random mode
RandomTexts == {"aA", "a !"}

SelectorOptions ==
  {NullOptions} \cup
  [kind : {"object"}, text : Texts, style : {"sans", "gothic"},
   city : {"NYC"}, caseOption : CaseOptions] \cup
  [kind : {"object"}, text : RandomTexts, style : {"random"}, city : {"NYC"},
   caseOption : {"mixed"}]

\* the selector before a call of getSelectedLetters; selected is the array
\* the loop fills and the call returns, trace the history of its turns.
\* twin is the same call in an environment that differs in one respect: no
\* lookup, load or canvas fails in it
NoSelection ==
  [pc |-> "idle", options |-> NullOptions, text |-> "", style |-> "",
   location |-> "", randomMode |-> FALSE, selected |-> <<>>, trace |-> <<>>,
   faults |-> 0,
   twin |-> [this |-> LetterDatabaseNew(2), loads |-> <<>>,
             selected |-> <<>>]]

\* a client calls selector.getSelectedLetters(options)
LSGetSelectedLetters(options) ==
  /\ component = "LetterSelector"
  /\ sel.pc = "idle"
  /\ options.kind = "object" /\ db.version = 1
       => Len(options.text) <= MaxDrawnText
  /\ sel' =
       IF options.kind = "null"
       THEN [sel EXCEPT !.pc = "returned"]
       ELSE LET processedText ==
                  CaseTransform(options.text, options.caseOption)
            IN [sel EXCEPT
                  !.options = options,
                  !.text = processedText,
                  !.style = options.style,
                  !.location = options.city,
                  !.randomMode = options.style = "random",
                  !.twin = [this |-> db, loads |-> dbLoads,
                            selected |-> <<>>],
                  !.pc = IF processedText = "" THEN "returned" ELSE "running"]
  /\ UNCHANGED <<uvars, component, hostname, candidates, am, amLoads, detections, db,
                 dbLoads, call, ncalls, server, config, check, late, lookups, tm>>

\* what the environment can do in a turn for char in style: at most
\* MaxFaults turns of a call meet a lookup, a load or a canvas that fails
TurnEnvs(char, style) ==
  IF ~IsAlphanumeric(char)
  THEN {[lookup |-> "returns", random |-> 0, index |-> 1, event |-> "onload",
         placeholder |-> "onload"]}
  ELSE UNION {
         LET n == IF lookup = "returns"
                  THEN Len(getLetterVariants(db, server, char, style,
                                             sel.location, FALSE, random).found)
                  ELSE 0
         IN [lookup : {lookup}, random : {random},
             index : IF n = 0 THEN {1} ELSE 1..n,
             event : IF sel.faults < MaxFaults /\ lookup = "returns"
                     THEN {"onload", "onerror", "timeout"} ELSE {"onload"},
             placeholder : IF sel.faults < MaxFaults /\ lookup = "returns"
                           THEN {"onload", "onerror", "throws"}
                           ELSE {"onload"}]
         : lookup \in IF sel.faults < MaxFaults
                      THEN {"returns", "throws", "nothing"} ELSE {"returns"},
           random \in FilterIds }

\* the environment fails the turn
Fault(env) ==
  env.lookup # "returns" \/ env.event # "onload" \/ env.placeholder # "onload"

\* env without its failures
FaultFree(env) ==
  [env EXCEPT !.lookup = "returns", !.event = "onload",
              !.placeholder = "onload"]

\* the turn of the loop ends with r, and with t in the twin
LSTurnTaken(env, r, t) ==
  /\ db' = r.this
  /\ dbLoads' = r.loads
  /\ late' = late \cup r.late
  /\ sel' = [sel EXCEPT
       !.selected = Append(@, r.letter),
       !.trace = Append(@, [r.turn EXCEPT !.fault = Fault(env)]),
       !.faults = IF Fault(env) THEN @ + 1 ELSE @,
       !.pc = IF Len(sel.selected) + 1 = Len(sel.text)
              THEN "returned" ELSE "running",
       !.twin = [this |-> t.this, loads |-> t.loads,
                 selected |-> Append(@.selected, t.letter)]]

\* the loop of the call takes its next turn
LSSelectLetter ==
  /\ component = "LetterSelector"
  /\ sel.pc = "running"
  /\ \E randomStyle \in IF sel.randomMode THEN availableStyles
                        ELSE {sel.style} :
     \E env \in TurnEnvs(CharAt(sel.text, Len(sel.selected) + 1),
                         randomStyle) :
       LSTurnTaken(env,
         selectLetter(db, dbLoads, server,
                      CharAt(sel.text, Len(sel.selected) + 1), randomStyle,
                      sel.location, sel.randomMode, env),
         selectLetter(sel.twin.this, sel.twin.loads, server,
                      CharAt(sel.text, Len(sel.selected) + 1), randomStyle,
                      sel.location, sel.randomMode, FaultFree(env)))
  /\ UNCHANGED <<uvars, component, hostname, candidates, am, amLoads, detections,
                 call, ncalls, server, config, check, lookups, tm>>

SelectorNext ==
  \/ \E options \in SelectorOptions : LSGetSelectedLetters(options)
  \/ LSSelectLetter

---------------------------------------------------------------------------
(* letterGenerator.js and scripts/typographyManager.js *)

\* the state the constructor of LetterGenerator leaves
LetterGeneratorNew ==
  [cache |-> EmptyMap, stats |-> [generated |-> 0, cached |-> 0]]

\* a generator that takes no entry of its cache for a hit
GeneratorCacheHitNever(this, cacheKey) == FALSE

\* `if (this.cache.has(cacheKey))`
GeneratorCacheHit(this, cacheKey) == cacheKey \in DOMAIN this.cache

\* generateLetter(char, style, {variant, city}): [this, value]
generateLetter(this, char, style, variant, city, random) ==
  LET cacheKey == char \o "_" \o style \o "_" \o variant \o "_" \o city
  IN IF GeneratorCacheHit(this, cacheKey)
     THEN [this |-> [this EXCEPT !.stats.cached = @ + 1],
           value |-> this.cache[cacheKey]]
     ELSE LET letter == [src |-> generateFallbackLetterSVG(char, style, random),
                         isGenerated |-> TRUE, isFallback |-> TRUE]
          IN [this |-> [this EXCEPT !.cache = MapSet(@, cacheKey, letter),
                                    !.stats.generated = @ + 1],
              value |-> letter]

\* `options.variant || '01'`, `options.city || 'NYC'`: an option that is
\* absent or empty has its default
OptionOr(value, default) == IF value \in {Null, ""} THEN default ELSE value

\* generateLetter(char, style, options): [this, value]
generateLetterWith(this, char, style, options, random) ==
  generateLetter(this, char, style, OptionOr(options.variant, "01"),
                 OptionOr(options.city, "NYC"), random)

\* the calls the clients of a generator make
MaxGeneratorCalls == 3

GeneratorChars == {"A", "B"}

GeneratorStyles == {"sans", "serif"}

GeneratorOptions == [variant : {Null, "01"}, city : {Null, "NYC"}]

\* a generator as its constructor leaves it, and no call made
GeneratorIdle == [this |-> LetterGeneratorNew, calls |-> <<>>]

\* a client calls letterGenerator.generateLetter(char, style, options)
LGGenerateLetter(char, style, options) ==
  /\ component = "LetterGenerator"
  /\ Len(gen.calls) < MaxGeneratorCalls
  /\ \E random \in FilterIds :
     LET g == generateLetterWith(gen.this, char, style, options, random)
     IN gen' = [this |-> g.this,
                calls |-> Append(gen.calls,
                            [char |-> char, style |-> style,
                             options |-> options, value |-> g.value])]
  /\ UNCHANGED <<app, deb, tvars, component, hostname, candidates, am, amLoads,
                 detections, db, dbLoads, call, ncalls>>

GeneratorNext ==
  \E char \in GeneratorChars, style \in GeneratorStyles,
     options \in GeneratorOptions : LGGenerateLetter(char, style, options)

\* the letters and the styles _prewarmCache asks for, in its order
prewarmLetters == SubSeq(<<"A", "B", "E", "T">>, 1, MaxPrewarm)

prewarmStyles == <<"sans-upper", "sans-lower">>

prewarmRequests ==
  [k \in 1..(Len(prewarmLetters) * Len(prewarmStyles)) |->
     [city |-> "NYC",
      style |-> prewarmStyles[((k - 1) % Len(prewarmStyles)) + 1],
      letter |-> prewarmLetters[((k - 1) \div Len(prewarmStyles)) + 1],
      variant |-> "01"]]

\* the production loops of AssetManager.initialize through their awaits,
\* from combination (b, t) on; hit is the combination whose probe finds a
\* file, <<0, 0>> if none does
RECURSIVE detect(_, _, _, _)
RECURSIVE detectOn(_, _)
detect(this, b, t, hit) ==
  detectOn(productionStep(this, b, t, <<b, t>> = hit), hit)

\* the loops after a probe: step is what productionStep left
detectOn(step, hit) ==
  IF step.done THEN step.this ELSE detect(step.this, step.b, step.t, hit)

\* the promise of a per-character load: resolved with a value, or pending on
\* load id of the asset manager as the call that started it or as one that
\* joined it
Resolved(value) == [kind |-> "resolved", value |-> value]

Pending(req, outcome) ==
  [kind |-> "pending", req |-> req, id |-> outcome.id, role |-> outcome.role]

\* TypographyManager.loadLetter(req) has run to its await, ll what
\* assetManager.loadLetter left
loadLetterStarted(st, req, ll) ==
  [this |-> ll.this, loads |-> ll.loads,
   promises |-> Append(st.promises,
     IF ll.outcome.kind = "return" THEN Resolved(ll.outcome.value)
     ELSE Pending(req, ll.outcome))]

(* TypographyManager.loadLetter for each request of reqs in turn, up to the
   first suspension of each: [this, loads, promises]; randoms[letter] is the
   value Math.random has when the fallback of letter is synthesized, which
   happens once at most as the asset manager keeps it by letter *)
RECURSIVE loadLetters(_, _, _, _)
loadLetters(st, reqs, randoms, i) ==
  IF i > Len(reqs) THEN st
  ELSE loadLetters(
         IF reqs[i] = NoReq
         THEN [st EXCEPT !.promises = Append(@, Resolved(NoResult))]
         ELSE loadLetterStarted(st, reqs[i],
                loadLetterBody(st.this, st.loads, reqs[i],
                               randoms[reqs[i].letter])),
         reqs, randoms, i + 1)

\* TypographyManager.initialize: the detection of the asset manager, then
\* _prewarmCache up to the suspension of its loads
initializeTypography(this, loads, hit, random, randoms) ==
  loadLetters([this |-> detect(initializeFallbackA(this, random), 1, 1, hit),
               loads |-> loads, promises |-> <<>>],
              prewarmRequests, randoms, 1)

\* the letterInfo entry of the character at index i (from 0)
letterInfoOf(char, style, i) ==
  IF IsSpace(char) THEN [type |-> "space", value |-> char, index |-> i]
  ELSE IF ~IsAlphanumeric(char)
  THEN [type |-> "special", value |-> char, index |-> i]
  ELSE [type |-> "letter", value |-> char, style |-> style,
        case |-> CaseOf(char), fullStyle |-> style \o "-" \o CaseOf(char),
        index |-> i]

\* the request getLettersFromText makes for an entry, NoReq for none
requestOf(info, city) ==
  IF info.type # "letter" THEN NoReq
  ELSE [city |-> city, style |-> info.fullStyle, letter |-> info.value,
        variant |-> "01"]

\* `letterInfo.map((info, i) => ...)` on the values of Promise.all
lettersOf(letterInfo, loadedImages) ==
  [i \in 1..Len(letterInfo) |->
     IF letterInfo[i].type \in {"space", "special"} THEN letterInfo[i]
     ELSE [type |-> "letter", value |-> letterInfo[i].value,
           style |-> letterInfo[i].style, case |-> letterInfo[i].case,
           fullStyle |-> letterInfo[i].fullStyle,
           index |-> letterInfo[i].index, image |-> loadedImages[i],
           isFallback |-> "isFallback" \in DOMAIN loadedImages[i]
                          /\ loadedImages[i].isFallback,
           isGenerated |-> "isGenerated" \in DOMAIN loadedImages[i]
                           /\ loadedImages[i].isGenerated]]

\* the manager before a call of getLettersFromText
TypographyManagerNew ==
  [initialized |-> FALSE, letterGenerator |-> LetterGeneratorNew,
   pc |-> "idle", text |-> "", processedText |-> "", opts |-> NullOptions,
   letterInfo |-> <<>>, promises |-> <<>>, letters |-> <<>>, faults |-> 0]

\* `if (!text || typeof text !== 'string')`, negated
TextGiven(text) == text # ""

---------------------------------------------------------------------------
(* TypographyManager: the actions *)

Configs == {[defaults |-> [text |-> t]] : t \in DefaultTexts}

TypographyOptions ==
  [kind : {"object"}, style : {"sans"}, city : {"NYC"},
   caseOption : CaseOptions]

\* the combination whose probe finds a file when the manager initializes
DetectionHits == {<<0, 0>>, <<1, 1>>}

\* Promise.all has resolved
AllResolved(promises) ==
  \A i \in 1..Len(promises) : promises[i].kind = "resolved"

\* the continuation of getLettersFromText after Promise.all
afterPromiseAll(this) ==
  IF this.pc = "waiting" /\ AllResolved(this.promises)
  THEN [this EXCEPT
          !.pc = "returned",
          !.letters = lettersOf(this.letterInfo,
                        [i \in 1..Len(this.promises) |->
                           this.promises[i].value])]
  ELSE this

\* getLettersFromText has reached `await Promise.all(letterPromises)`
TMLettersRequested(text, options, processedText, letterInfo, st) ==
  /\ am' = st.this
  /\ amLoads' = st.loads
  /\ tm' = afterPromiseAll(
       [tm EXCEPT !.initialized = TRUE, !.pc = "waiting",
                  !.text = text, !.processedText = processedText,
                  !.opts = options, !.letterInfo = letterInfo,
                  !.promises = st.promises])

\* the loop of getLettersFromText over processedText, after initialize
\* left st
TMProcessText(text, options, processedText, letterInfo, randoms, st) ==
  TMLettersRequested(text, options, processedText, letterInfo,
    loadLetters([st EXCEPT !.promises = <<>>],
                [i \in 1..Len(letterInfo) |->
                   requestOf(letterInfo[i], options.city)],
                randoms, 1))

\* the call with its text resolved and case-transformed
TMTextProcessed(text, options, processedText) ==
  \E hit \in DetectionHits, random \in FilterIds,
     randoms \in [LettersOf(processedText) \cup
                  {prewarmLetters[k] : k \in 1..Len(prewarmLetters)}
                  -> FilterIds] :
    /\ hit # <<0, 0>> => Len(processedText) <= MaxRequestedText
    /\ TMProcessText(text, options, processedText,
         [i \in 1..Len(processedText) |->
            letterInfoOf(CharAt(processedText, i), options.style, i - 1)],
         randoms,
         IF tm.initialized
         THEN [this |-> am, loads |-> amLoads, promises |-> <<>>]
         ELSE initializeTypography(am, amLoads, hit, random, randoms))

\* a client calls typographyManager.getLettersFromText(text, options); the
\* call goes through initialize, which awaits the detection of the asset
\* manager and starts _prewarmCache
TMGetLettersFromText(text, options) ==
  /\ component = "TypographyManager"
  /\ tm.pc = "idle"
  /\ TMTextProcessed(text, options,
       CaseTransform(IF TextGiven(text) THEN text ELSE config.defaults.text,
                     options.caseOption))
  /\ UNCHANGED <<uvars, component, hostname, candidates, detections, db, dbLoads,
                 call, ncalls, server, config, check, late, lookups, sel>>

\* _loadLetterImage: img.onload; the promises of the letters that await
\* the load resolve with the letter
TMImageOnload(id) ==
  /\ component = "TypographyManager"
  /\ id \in 1..Len(amLoads)
  /\ amLoads[id].state = "pending"
  /\ LET l == amLoads[id]
         letter == [src |-> l.path, width |-> DecodedSize.width,
                    height |-> DecodedSize.height, isFallback |-> FALSE]
     IN /\ amLoads' = [amLoads EXCEPT ![id].state = "loaded"]
        /\ am' = loadLetterResolved([am EXCEPT !.stats.loaded = @ + 1],
                                    l.key, letter)
        /\ tm' = afterPromiseAll(
             [tm EXCEPT !.promises =
                [i \in 1..Len(tm.promises) |->
                   IF tm.promises[i].kind = "pending" /\ tm.promises[i].id = id
                   THEN Resolved(letter) ELSE tm.promises[i]]])
  /\ UNCHANGED <<uvars, component, hostname, candidates, detections, db, dbLoads,
                 call, ncalls, server, config, check, late, lookups, sel>>

(* the catch of TypographyManager.loadLetter for the promises from index i
   on that joined load id: [this, promises], this the letter generator *)
RECURSIVE generateForJoined(_, _, _, _, _)
generateForJoined(this, promises, id, random, i) ==
  IF i > Len(promises) THEN [this |-> this, promises |-> promises]
  ELSE IF promises[i].kind = "pending" /\ promises[i].id = id
          /\ promises[i].role = "coalesced"
  THEN LET g == generateLetter(this, promises[i].req.letter,
                               promises[i].req.style, "01",
                               promises[i].req.city, random)
       IN generateForJoined(g.this,
                            [promises EXCEPT ![i] = Resolved(g.value)],
                            id, random, i + 1)
  ELSE generateForJoined(this, promises, id, random, i + 1)

\* _loadLetterImage: img.onerror rejects; the loadLetter of the asset
\* manager that started the load catches and returns its fallback, a
\* promise that joined the load rejects and TypographyManager.loadLetter
\* has the letter generated
TMImageOnerror(id) ==
  /\ component = "TypographyManager"
  /\ id \in 1..Len(amLoads)
  /\ amLoads[id].state = "pending"
  /\ tm.faults < MaxFaults
  /\ \E random \in FilterIds, random2 \in FilterIds :
     LET l == amLoads[id]
         f == loadLetterRejected(am, l.key, l.req, random)
         started == [i \in 1..Len(tm.promises) |->
                       IF tm.promises[i].kind = "pending"
                          /\ tm.promises[i].id = id
                          /\ tm.promises[i].role = "initiator"
                       THEN Resolved(f.value) ELSE tm.promises[i]]
         g == generateForJoined(tm.letterGenerator, started, id, random2, 1)
     IN /\ amLoads' = [amLoads EXCEPT ![id].state = "errored"]
        /\ am' = f.this
        /\ tm' = afterPromiseAll(
             [tm EXCEPT !.promises = g.promises, !.letterGenerator = g.this,
                        !.faults = @ + 1])
  /\ UNCHANGED <<uvars, component, hostname, candidates, detections, db, dbLoads,
                 call, ncalls, server, config, check, late, lookups, sel>>

TypographyNext ==
  \/ \E text \in Texts, options \in TypographyOptions :
       TMGetLettersFromText(text, options)
  \/ \E id \in 1..Len(amLoads) : TMImageOnload(id)
  \/ \E id \in 1..Len(amLoads) : TMImageOnerror(id)

---------------------------------------------------------------------------
(* scripts/utils.js: debounce.  Time is counted in ticks; a timer that is
   due runs its callback before more time passes, and a call made at the
   instant a timer is due may come before or after the callback. *)

\* the wait of the debounced function, in ticks
DebounceWait == 2

MaxDebounceCalls == 4

\* the arguments the clients call the debounced function with
DebounceArgs == {"a", "b"}

\* the closure debounce(fn, wait, immediate) returns: timeout is the timer
\* (Null or armed), args what its callback has captured and remaining the
\* ticks until it is due.  The history: elapsed, the ticks since the most
\* recent call; calls, the arguments of the calls so far; invoked, the
\* invocations of fn, each with its arguments, the number of calls made
\* before it and the ticks elapsed since the most recent of them
DebounceNew(immediate) ==
  [immediate |-> immediate, timeout |-> Null, args |-> Null, remaining |-> 0,
   elapsed |-> 0, calls |-> <<>>, invoked |-> <<>>]

\* fn.apply(this, args)
fnApplied(this, args) ==
  [this EXCEPT !.invoked =
     Append(@, [args |-> args, after |-> Len(this.calls),
                elapsed |-> this.elapsed])]

\* a debounced function that restarts the timer it has armed without
\* giving it the arguments of the new call
debouncedKeepsArgs(this, args) ==
  LET callNow == this.immediate /\ this.timeout = Null
      called == [this EXCEPT !.calls = Append(@, args), !.elapsed = 0]
      armed == [called EXCEPT !.timeout = "armed",
                              !.args = IF this.timeout = "armed" THEN @
                                       ELSE args,
                              !.remaining = DebounceWait]
  IN IF callNow THEN fnApplied(armed, args) ELSE armed

\* the debounced function is called with args
debounced(this, args) ==
  LET callNow == this.immediate /\ this.timeout = Null
      called == [this EXCEPT !.calls = Append(@, args), !.elapsed = 0]
      armed == [called EXCEPT !.timeout = "armed", !.args = args,
                              !.remaining = DebounceWait]
  IN IF callNow THEN fnApplied(armed, args) ELSE armed

\* the callback of setTimeout
timeoutCallback(this) ==
  LET cleared == [this EXCEPT !.timeout = Null, !.remaining = 0]
  IN IF ~this.immediate THEN fnApplied(cleared, this.args) ELSE cleared

\* a client calls the debounced function
DebounceCall(args) ==
  /\ component = "Debounce"
  /\ Len(deb.calls) < MaxDebounceCalls
  /\ deb' = debounced(deb, args)
  /\ UNCHANGED <<app, gen, tvars, component, hostname, candidates, am, amLoads,
                 detections, db, dbLoads, call, ncalls>>

\* a tick passes while the timer is armed and not due
DebounceTick ==
  /\ component = "Debounce"
  /\ deb.timeout = "armed" /\ deb.remaining > 0
  /\ deb' = [deb EXCEPT !.remaining = @ - 1, !.elapsed = @ + 1]
  /\ UNCHANGED <<app, gen, tvars, component, hostname, candidates, am, amLoads,
                 detections, db, dbLoads, call, ncalls>>

\* the timer is due: its callback runs
DebounceTimeout ==
  /\ component = "Debounce"
  /\ deb.timeout = "armed" /\ deb.remaining = 0
  /\ deb' = timeoutCallback(deb)
  /\ UNCHANGED <<app, gen, tvars, component, hostname, candidates, am, amLoads,
                 detections, db, dbLoads, call, ncalls>>

DebounceNext ==
  \/ \E args \in DebounceArgs : DebounceCall(args)
  \/ DebounceTick
  \/ DebounceTimeout

---------------------------------------------------------------------------
(* scripts/app.js: the generate button and updateCanvas *)

MaxGenerations == 3

sizes == <<"SMALL", "MEDIUM", "LARGE">>

\* the page after DOMContentLoaded: the generate button enabled, the size
\* toggle at its first size, the initial render scheduled, and no call of
\* updateCanvas made; generations holds each call of updateCanvas as
\* "awaiting" (at `await selector.selectLettersForText`) or "finished"
AppNew ==
  [disabled |-> FALSE, textContent |-> "Generate Typography",
   fontSizeToggle |-> "SMALL", initialRender |-> "scheduled",
   generations |-> <<>>]

\* showLoading, as far as the generate button goes
showLoading(this) ==
  [this EXCEPT !.disabled = TRUE, !.textContent = "Generating..."]

\* hideLoading, as far as the generate button goes
hideLoading(this) ==
  [this EXCEPT !.disabled = FALSE, !.textContent = "Generate Typography"]

\* updateCanvas up to its await; outcome "throws" if a statement before
\* the await throws, which the outer catch and the finally take
updateCanvas(this, outcome) ==
  IF outcome = "throws"
  THEN hideLoading([showLoading(this) EXCEPT
                      !.generations = Append(@, "finished")])
  ELSE [showLoading(this) EXCEPT !.generations = Append(@, "awaiting")]

\* updateCanvas from its await on, for generation g: the letters are
\* rendered or the inner catch shows the error, then the finally
updateCanvasResumed(this, g) ==
  hideLoading([this EXCEPT !.generations[g] = "finished"])

\* the size after currentSize in the cycle of updateFontSize
nextSize(currentSize) ==
  LET currentIndex == CHOOSE i \in DOMAIN sizes : sizes[i] = currentSize
  IN sizes[(currentIndex % Len(sizes)) + 1]

UpdateCanvasOutcomes == {"awaits", "throws"}

\* the 500 ms timer of the initial render fires
AppInitialRender(outcome) ==
  /\ component = "App"
  /\ app.initialRender = "scheduled"
  /\ Len(app.generations) < MaxGenerations
  /\ app' = updateCanvas([app EXCEPT !.initialRender = "done"], outcome)
  /\ UNCHANGED <<deb, gen, tvars, component, hostname, candidates, am, amLoads,
                 detections, db, dbLoads, call, ncalls>>

\* a click on the generate button, which a disabled button does not report
AppGenerateClick(outcome) ==
  /\ component = "App"
  /\ ~app.disabled
  /\ Len(app.generations) < MaxGenerations
  /\ app' = updateCanvas(app, outcome)
  /\ UNCHANGED <<deb, gen, tvars, component, hostname, candidates, am, amLoads,
                 detections, db, dbLoads, call, ncalls>>

\* a click on the size toggle: updateFontSize
AppUpdateFontSize(outcome) ==
  /\ component = "App"
  /\ Len(app.generations) < MaxGenerations
  /\ app' = updateCanvas(
       [app EXCEPT !.fontSizeToggle = nextSize(@)], outcome)
  /\ UNCHANGED <<deb, gen, tvars, component, hostname, candidates, am, amLoads,
                 detections, db, dbLoads, call, ncalls>>

\* selectLettersForText settles for generation g, resolved or rejected
AppLettersSettled(g) ==
  /\ component = "App"
  /\ g \in 1..Len(app.generations)
  /\ app.generations[g] = "awaiting"
  /\ app' = updateCanvasResumed(app, g)
  /\ UNCHANGED <<deb, gen, tvars, component, hostname, candidates, am, amLoads,
                 detections, db, dbLoads, call, ncalls>>

AppNext ==
  \/ \E outcome \in UpdateCanvasOutcomes : AppInitialRender(outcome)
  \/ \E outcome \in UpdateCanvasOutcomes : AppGenerateClick(outcome)
  \/ \E outcome \in UpdateCanvasOutcomes : AppUpdateFontSize(outcome)
  \/ \E g \in 1..Len(app.generations) : AppLettersSettled(g)

\* the page at rest
UiIdle == app = AppNew /\ deb = DebounceNew(FALSE) /\ gen = GeneratorIdle

---------------------------------------------------------------------------
(* The system *)

\* the first MaxBases base paths and the first MaxTemplates templates
CandidateLists ==
  { [bases |-> SubSeq(possibleBasePaths, 1, MaxBases),
     templates |-> SubSeq(pathTemplates, 1, MaxTemplates)] }

\* text resolution at rest
TextIdle ==
  /\ lookups = <<>>
  /\ sel = NoSelection
  /\ tm = TypographyManagerNew

Init ==
  /\ TextIdle
  /\ UiIdle
  /\ late = {}
  /\ server = [present |-> {}, slow |-> {}]
  /\ config = [defaults |-> [text |-> ""]]
  /\ check = CheckStart(2)
  /\ candidates \in CandidateLists
  /\ am = AssetManagerNew
  /\ amLoads = <<>>
  /\ detections = <<>>
  /\ dbLoads = <<>>
  /\ call = [c \in Callers |-> Idle]
  /\ ncalls = 0
  /\ \/ /\ component = "AssetManager"
        /\ hostname \in Hostnames
        /\ db = LetterDatabaseNew(2)
     \/ /\ component = "LetterDatabase"
        /\ hostname = "streettype.example"
        /\ db \in {LetterDatabaseNew(v) : v \in {1, 2}}

Next == AMNext \/ DBNext

Spec == Init /\ [][Next]_vars

\* a timer that is armed fires: a detection probe's or an image load's
TimerFires ==
  \/ \E c \in Callers : AMProbeTimeout(c)
  \/ \E id \in 1..Len(dbLoads) : DBTimeout(id)

\* The timers are the only events the runtime is bound to deliver: an armed
\* timer fires unless it is cleared first; an Image may never report at all
FairSpec == Spec /\ WF_vars(TimerFires)

(* The asset manager with the whole candidate lists of initialize: all the
   base paths and all the path templates, and the last DetectionCalls calls
   of a client *)
DetectionCalls == 1

DetectionInit ==
  /\ TextIdle
  /\ UiIdle
  /\ late = {}
  /\ server = [present |-> {}, slow |-> {}]
  /\ config = [defaults |-> [text |-> ""]]
  /\ check = CheckStart(2)
  /\ component = "AssetManager"
  /\ hostname \in Hostnames
  /\ candidates = [bases |-> possibleBasePaths, templates |-> pathTemplates]
  /\ am = AssetManagerNew
  /\ amLoads = <<>>
  /\ detections = <<>>
  /\ db = LetterDatabaseNew(2)
  /\ dbLoads = <<>>
  /\ call = [c \in Callers |-> Idle]
  /\ ncalls = MaxCalls - DetectionCalls

DetectionSpec == DetectionInit /\ [][AMNext]_vars /\ WF_vars(TimerFires)

(* Text resolution: a variant catalog with its clients, a LetterSelector on
   a catalog, or the TypographyManager on the asset manager.  The catalog of
   the first definition has started _checkForAssets when it is constructed;
   the selector is called before the first probe of the check has resolved,
   or after the check has ended. *)
TextInit ==
  /\ TextIdle
  /\ UiIdle
  /\ candidates \in CandidateLists
  /\ hostname = "streettype.example"
  /\ am = AssetManagerNew
  /\ amLoads = <<>>
  /\ detections = <<>>
  /\ dbLoads = <<>>
  /\ call = [c \in Callers |-> Idle]
  /\ ncalls = 0
  /\ \/ /\ component = "VariantCatalog"
        /\ server \in Nets
        /\ config = [defaults |-> [text |-> ""]]
        /\ db \in {LetterDatabaseNew(v) : v \in {1, 2}}
        /\ check = CheckStart(db.version)
        /\ late = {}
     \/ /\ component = "LetterSelector"
        /\ server \in Nets
        /\ config = [defaults |-> [text |-> ""]]
        /\ \/ /\ db \in {LetterDatabaseNew(v) : v \in {1, 2}}
              /\ check = CheckStart(db.version)
              /\ late = {}
           \/ \E r \in {checkForAssetsFrom(
                          [this |-> LetterDatabaseNew(1), late |-> {}],
                          server, 1)} :
                /\ db = r.this
                /\ check = Len(testCases) + 1
                /\ late = r.late
     \/ /\ component = "TypographyManager"
        /\ server = [present |-> {}, slow |-> {}]
        /\ config \in Configs
        /\ db = LetterDatabaseNew(2)
        /\ check = CheckStart(2)
        /\ late = {}

TextNext == CatalogNext \/ SelectorNext \/ TypographyNext

TextSpec == TextInit /\ [][TextNext]_vars

(* The path builder by itself: clients call getLetterPath of a catalog of
   either definition with characters of every class *)
MaxPathCalls == 2

\* every character symbolMap has an entry for, letters, a digit, a space and
\* a character of no class
PathCharacters == DOMAIN symbolMap \cup {"A", "a", "1", " ", "~"}

PathStyles == {"sans", "gothic"}

PathLocations == {"NYC", "LA"}

PathIndices == {1, 2}

PathInit ==
  /\ TextIdle
  /\ UiIdle
  /\ component = "PathBuilder"
  /\ candidates \in CandidateLists
  /\ hostname = "streettype.example"
  /\ am = AssetManagerNew
  /\ amLoads = <<>>
  /\ detections = <<>>
  /\ dbLoads = <<>>
  /\ call = [c \in Callers |-> Idle]
  /\ ncalls = 0
  /\ server = [present |-> {}, slow |-> {}]
  /\ config = [defaults |-> [text |-> ""]]
  /\ late = {}
  /\ db \in {LetterDatabaseNew(v) : v \in {1, 2}}
  /\ check = CheckStart(db.version)

\* getLetterPath returns p to the client
DBPathReturns(character, styleKey, location, variantIndex, p) ==
  lookups' = Append(lookups,
    [character |-> character, styleKey |-> styleKey, location |-> location,
     variantIndex |-> variantIndex, version |-> db.version,
     value |-> p.value, error |-> p.error])

\* a client calls database.getLetterPath
DBGetLetterPath(character, styleKey, location, variantIndex) ==
  /\ component = "PathBuilder"
  /\ Len(lookups) < MaxPathCalls
  /\ DBPathReturns(character, styleKey, location, variantIndex,
       getLetterPath(db.version, character, styleKey, location,
                     variantIndex))
  /\ UNCHANGED <<uvars, component, hostname, candidates, am, amLoads, detections, db,
                 dbLoads, call, ncalls, server, config, check, late, sel, tm>>

PathNext ==
  \E character \in PathCharacters, styleKey \in PathStyles,
     location \in PathLocations, variantIndex \in PathIndices :
    DBGetLetterPath(character, styleKey, location, variantIndex)

PathSpec == PathInit /\ [][PathNext]_vars

(* The page: a debounced function with its clients and its timer, or the
   generate button with the calls of updateCanvas *)
UiInit ==
  /\ TextIdle
  /\ gen = GeneratorIdle
  /\ candidates \in CandidateLists
  /\ hostname = "streettype.example"
  /\ am = AssetManagerNew
  /\ amLoads = <<>>
  /\ detections = <<>>
  /\ db = LetterDatabaseNew(1)
  /\ dbLoads = <<>>
  /\ call = [c \in Callers |-> Idle]
  /\ ncalls = 0
  /\ server = [present |-> {}, slow |-> {}]
  /\ config = [defaults |-> [text |-> ""]]
  /\ late = {}
  /\ check = CheckStart(1)
  /\ \/ /\ component = "Debounce"
        /\ app = AppNew
        /\ deb \in {DebounceNew(immediate) : immediate \in BOOLEAN}
     \/ /\ component = "App"
        /\ app = AppNew
        /\ deb = DebounceNew(FALSE)

UiNext == DebounceNext \/ AppNext

UiSpec == UiInit /\ [][UiNext]_vars

(* A LetterGenerator with clients that call generateLetter *)
GeneratorInit ==
  /\ TextIdle
  /\ app = AppNew
  /\ deb = DebounceNew(FALSE)
  /\ gen = GeneratorIdle
  /\ late = {}
  /\ server = [present |-> {}, slow |-> {}]
  /\ config = [defaults |-> [text |-> ""]]
  /\ check = CheckStart(2)
  /\ component = "LetterGenerator"
  /\ hostname = "streettype.example"
  /\ candidates \in CandidateLists
  /\ am = AssetManagerNew
  /\ amLoads = <<>>
  /\ detections = <<>>
  /\ db = LetterDatabaseNew(2)
  /\ dbLoads = <<>>
  /\ call = [c \in Callers |-> Idle]
  /\ ncalls = 0

GeneratorSpec == GeneratorInit /\ [][GeneratorNext]_vars

(* The asset manager with clients that ask for the same letters in two
   styles *)
FallbackStyles == {"sans-upper", "serif-upper"}

FallbackRequests ==
  [city : Cities, style : FallbackStyles, letter : Letters, variant : Variants]

\* the calls the clients make
FallbackCalls == 2

FallbackInit ==
  /\ TextIdle
  /\ UiIdle
  /\ late = {}
  /\ server = [present |-> {}, slow |-> {}]
  /\ config = [defaults |-> [text |-> ""]]
  /\ check = CheckStart(2)
  /\ component = "AssetManager"
  /\ hostname \in Hostnames
  /\ candidates \in CandidateLists
  /\ am = AssetManagerNew
  /\ amLoads = <<>>
  /\ detections = <<>>
  /\ db = LetterDatabaseNew(2)
  /\ dbLoads = <<>>
  /\ call = [c \in Callers |-> Idle]
  /\ ncalls = MaxCalls - FallbackCalls

FallbackNext ==
  \/ \E c \in Callers : AMInitialize(c)
  \/ \E c \in Callers, req \in FallbackRequests : AMLoadLetter(c, req)
  \/ \E c \in Callers : AMProbeOnload(c)
  \/ \E c \in Callers : AMProbeOnerror(c)
  \/ \E c \in Callers : AMProbeTimeout(c)
  \/ \E id \in 1..Len(amLoads) : AMImageOnload(id)
  \/ \E id \in 1..Len(amLoads) : AMImageOnerror(id)

FallbackSpec == FallbackInit /\ [][FallbackNext]_vars

---------------------------------------------------------------------------
(* Properties: load coalescing *)

\* the loads of key that loadLetter has started so far
FetchesOf(loads, key) ==
  Cardinality({i \in 1..Len(loads) : loads[i].key = key})

\* the loads of path that loadImage has started so far
DBFetchesOf(loads, path) ==
  Cardinality({i \in 1..Len(loads) : loads[i].path = path})

\* in this step the body of loadLetter runs for the call in slot c
AMRequestedBy(c) ==
  /\ am'.stats.requested # am.stats.requested
  /\ \/ ncalls' # ncalls /\ CanCall(c)
     \/ call[c].pc = "probing" /\ call'[c].pc # "probing"

\* in this step loadImage is called in slot c
DBRequestedBy(c) ==
  component = "LetterDatabase" /\ ncalls' # ncalls /\ CanCall(c)

\* C1: while a load of key k is registered in flight (and so unsettled), no
\* step starts another fetch of k, and a request for k made in the step is
\* handed the registered pending load -- for AssetManager.loadLetter and for
\* both definitions of LetterDatabase.loadImage.
C1_Coalescing ==
  [][ /\ \A k \in DOMAIN am.loadingPromises :
           /\ amLoads[am.loadingPromises[k]].state = "pending"
           /\ amLoads[am.loadingPromises[k]].key = k
           /\ FetchesOf(amLoads', k) = FetchesOf(amLoads, k)
           /\ \A c \in Callers :
                (AMRequestedBy(c) /\ CacheKey(call'[c].req) = k) =>
                  /\ call'[c].pc = "coalesced"
                  /\ call'[c].awaits = am.loadingPromises[k]
      /\ \A q \in DOMAIN db.loadingPromises :
           /\ dbLoads[db.loadingPromises[q]].promise = "pending"
           /\ dbLoads[db.loadingPromises[q]].path = q
           /\ DBFetchesOf(dbLoads', q) = DBFetchesOf(dbLoads, q)
           /\ \A c \in Callers :
                (DBRequestedBy(c) /\ call'[c].path = q) =>
                  /\ call'[c].pc = "waiting"
                  /\ call'[c].awaits = db.loadingPromises[q]
    ]_vars

\* a second loadLetter for a key was handed the load the first one started
C1_Witness ==
  \E c1, c2 \in Callers :
    /\ call[c1].pc = "loading" /\ call[c2].pc = "coalesced"
    /\ call[c1].awaits = call[c2].awaits
    /\ call[c1].req = call[c2].req
    /\ FetchesOf(amLoads, CacheKey(call[c1].req)) = 1

\* C2: two loadLetter calls that were served by the same underlying load
\* have received equal results, whether the load succeeded or failed.
C2_EqualResults ==
  \A c1, c2 \in Callers :
    ( /\ call[c1].op = "loadLetter" /\ call[c2].op = "loadLetter"
      /\ call[c1].pc = "returned" /\ call[c2].pc = "returned"
      /\ call[c1].awaits # 0 /\ call[c1].awaits = call[c2].awaits )
    => call[c1].result = call[c2].result

\* C3: no load of a remote URL by loadImage is rejected; once its image has
\* failed or its timer has fired, the load is resolved to the minimal
\* 40x60 placeholder and is no longer the in-flight entry of its URL.
C3_NeverRejects ==
  \A id \in 1..Len(dbLoads) :
    LET l == dbLoads[id]
    IN ~StartsWith(l.path, "data:") =>
         /\ l.promise # "rejected"
         /\ (l.img = "errored" \/ l.timer = "fired") =>
              /\ l.promise = "resolved"
              /\ l.value.width = 40 /\ l.value.height = 60
              /\ ~(l.path \in DOMAIN db.loadingPromises /\
                   db.loadingPromises[l.path] = id)

---------------------------------------------------------------------------
(* Properties: path detection *)

\* C4: at most one detection (one sequence of probes) is ever started.
C4_DetectsOnce == Len(detections) <= 1

\* C5: a call that arrives when initialized is already true is never at a
\* detection probe and has started no detection.
C5_NoProbeOnceInitialized ==
  \A c \in Callers :
    call[c].late => call[c].pc # "probing" /\ call[c].run = 0

\* calls made after a detection set initialized have come back
C5_Witness ==
  /\ am.initialized
  /\ \E r \in 1..Len(detections) : Len(detections[r].log) > 0
  /\ \E c \in Callers :
       call[c].late /\ call[c].pc = "returned" /\ call[c].op = "initialize"
  /\ \E c \in Callers :
       call[c].late /\ call[c].pc = "returned" /\ call[c].op = "loadLetter"

\* C6: once initialized is true, no step changes basePath,
\* workingPathPattern or assetsDetected.
C6_ResolvedBaseImmutable ==
  [][ am.initialized =>
        /\ am'.basePath = am.basePath
        /\ am'.workingPathPattern = am.workingPathPattern
        /\ am'.assetsDetected = am.assetsDetected ]_vars

\* the i-th combination of the nested loops: bases outside, templates inside
ComboB(i) == ((i - 1) \div Len(candidates.templates)) + 1

ComboT(i) == ((i - 1) % Len(candidates.templates)) + 1

\* the detection of run r found a file at its last probe
Found(r) ==
  LET log == detections[r].log
  IN Len(log) > 0 /\ log[Len(log)].ok

\* Within one detection: the probes are those of the (base, template)
\* combinations in nested order, bases outside and templates inside (on a
\* development host: the quick paths in list order), none follows a probe
\* that succeeded, and what the detection recorded is the base and the
\* template of that probe.
DetectionInOrder(r) ==
  LET d == detections[r]
      n == Len(d.log)
  IN /\ \A i \in 1..n :
          IF IsDevelopmentHost(hostname)
          THEN d.log[i].t = i /\ d.log[i].path = quickPaths[i]
          ELSE /\ d.log[i].b = ComboB(i) /\ d.log[i].t = ComboT(i)
               /\ d.log[i].path = TestPaths[ComboB(i)][ComboT(i)]
     /\ \A i \in 1..(n - 1) : ~d.log[i].ok
     /\ Found(r) => d.done
     /\ ~d.done =>
          IF IsDevelopmentHost(hostname)
          THEN d.t = n + 1 /\ d.t <= Len(quickPaths)
          ELSE /\ d.b = ComboB(n + 1) /\ d.t = ComboT(n + 1)
               /\ d.b <= Len(candidates.bases)
     /\ (Found(r) /\ ~IsDevelopmentHost(hostname)) =>
          d.recorded =
            [basePath |-> candidates.bases[d.log[n].b],
             workingPathPattern |-> candidates.templates[d.log[n].t]]

\* every detection, taken by itself, probes in nested order and stops at
\* its first success
DetectionsInOrder == \A r \in 1..Len(detections) : DetectionInOrder(r)

\* some probe has succeeded
SomeProbeSucceeded == \E r \in 1..Len(detections) : Found(r)

\* C7: probes go through the (base, template) combinations in nested
\* order, bases outside and templates inside; once a probe has succeeded no
\* further probe is issued (a detection that takes a probe result ends, and
\* none is started), and basePath and workingPathPattern stay those of that
\* first successful probe.
C7_NestedShortCircuit ==
  [][ /\ DetectionsInOrder'
      /\ SomeProbeSucceeded =>
           /\ Len(detections') = Len(detections)
           /\ \A r \in 1..Len(detections) :
                detections'[r].log # detections[r].log => detections'[r].done
           /\ am'.basePath = am.basePath
           /\ am'.workingPathPattern = am.workingPathPattern ]_vars

\* run r: two bases and two templates, and the one probe that succeeded is
\* that of the second base with the second template (index 1 and index 1)
FoundAtLastOfFour(r) ==
  /\ ~IsDevelopmentHost(hostname)
  /\ Len(candidates.bases) = 2 /\ Len(candidates.templates) = 2
  /\ detections[r].done
  /\ Found(r)
  /\ \A i \in 1..Len(detections[r].log) :
       detections[r].log[i].ok <=>
         (detections[r].log[i].b = 2 /\ detections[r].log[i].t = 2)

\* C8: with two bases and two templates, a detection whose only existing
\* combination is base index 1 with template index 1 makes exactly 4
\* probes: three that fail and the fourth that succeeds.
C8_FourProbes ==
  \A r \in 1..Len(detections) :
    FoundAtLastOfFour(r) => Len(detections[r].log) = 4

\* C8 as stated: the same detection makes exactly 3 probes.
C8_ThreeProbes ==
  \A r \in 1..Len(detections) :
    FoundAtLastOfFour(r) => Len(detections[r].log) = 3

\* a detection that found the last of the four combinations
C8_Witness ==
  \E r \in 1..Len(detections) :
    FoundAtLastOfFour(r) /\ am.basePath = candidates.bases[2]
                         /\ am.workingPathPattern = candidates.templates[2]

\* no probe of any detection has succeeded
NoProbeSucceeded ==
  \A r \in 1..Len(detections) :
    \A i \in 1..Len(detections[r].log) : ~detections[r].log[i].ok

\* C9: when a detection has ended and no probe has succeeded, the
\* AssetManager is in fallback-only mode (assetDetectionCompleted, not
\* assetsDetected, no workingPathPattern); initialize has returned false,
\* not thrown; no letter load has been started, and every loadLetter past
\* detection has returned a synthesized fallback.
C9_FallbackOnlyMode ==
  (am.initialized /\ NoProbeSucceeded) =>
    /\ am.assetDetectionCompleted
    /\ ~am.assetsDetected
    /\ am.workingPathPattern = Null
    /\ amLoads = <<>>
    /\ \A c \in Callers :
         /\ (call[c].op = "initialize" /\ call[c].pc # "probing") =>
              /\ call[c].pc = "returned"
              /\ call[c].result = [kind |-> "bool", flag |-> FALSE]
         /\ (call[c].op = "loadLetter" /\ call[c].pc # "probing") =>
              /\ call[c].pc = "returned"
              /\ call[c].result.kind = "value"
              /\ call[c].result.value.isFallback
              /\ StartsWith(call[c].result.value.src, "data:image/svg+xml")

\* every probe failed, and a loadLetter made afterwards has returned
C9_Witness ==
  /\ am.initialized /\ NoProbeSucceeded
  /\ \E r \in 1..Len(detections) :
       detections[r].done /\ Len(detections[r].log) > 1
  /\ \E c \in Callers :
       call[c].late /\ call[c].op = "loadLetter" /\ call[c].pc = "returned"

---------------------------------------------------------------------------
(* Properties: termination *)

\* C10: every call that waits for a load is eventually returned to, with
\* the timers fair and the Image free never to report.
C10_EveryLoadResolves ==
  \A c \in Callers :
    (call[c].pc \in {"loading", "coalesced", "waiting"})
      ~> (call[c].pc = "returned")


---------------------------------------------------------------------------
(* Properties: text resolution *)

\* getSelectedLetters has returned the array of a call with options
SelectorReturned ==
  component = "LetterSelector" /\ sel.pc = "returned"
    /\ sel.options.kind = "object"

\* getLettersFromText has returned
TMReturned == component = "TypographyManager" /\ tm.pc = "returned"

\* result has one descriptor for each character of the case-transformed
\* text, the i-th with the i-th character
InOrder(result, text, caseOption) ==
  /\ Len(result) = Len(CaseTransform(text, caseOption))
  /\ \A i \in 1..Len(result) :
       i <= Len(CaseTransform(text, caseOption))
         => result[i].value = CharAt(CaseTransform(text, caseOption), i)

(* C11: for every text T and case option, the sequence an orchestrator
   returns has as many descriptors as the case-transformed T has
   characters, the empty text included, and its i-th descriptor carries the
   i-th character of the transformed text *)
C11_LengthAndOrder ==
  /\ SelectorReturned
       => InOrder(sel.selected, sel.options.text, sel.options.caseOption)
  /\ TMReturned => InOrder(tm.letters, tm.text, tm.opts.caseOption)


\* the load of the asset manager that serves the letter at position i of
\* the text, 0 if none does
LoadOf(i) ==
  IF \E id \in 1..Len(amLoads) :
       amLoads[id].key = CacheKey(requestOf(tm.letterInfo[i], tm.opts.city))
  THEN CHOOSE id \in 1..Len(amLoads) :
         amLoads[id].key = CacheKey(requestOf(tm.letterInfo[i], tm.opts.city))
  ELSE 0

\* a descriptor of a character that has no image of its own
FallbackDescriptor(d, char) ==
  d.type = "letter" /\ d.value = char /\ d.isFallback

(* C12: text resolution never throws and failure is per character: if the
   variant lookup or the image load of a character fails (throws, rejects,
   gives nothing or gives an image without width and height), the
   descriptor of that character is a fallback descriptor, and the
   descriptors of the other characters are what they are when nothing
   fails *)
C12_FailurePerCharacter ==
  /\ component = "LetterSelector" =>
       \A i \in 1..Len(sel.selected) :
         /\ sel.trace[i].failed =>
              /\ FallbackDescriptor(sel.selected[i], CharAt(sel.text, i))
              /\ HasSize(sel.selected[i].image)
         /\ ~sel.trace[i].fault => sel.selected[i] = sel.twin.selected[i]
  /\ TMReturned =>
       \A i \in 1..Len(tm.letters) :
         tm.letters[i].type = "letter" /\ LoadOf(i) # 0 =>
           /\ amLoads[LoadOf(i)].state = "errored" =>
                FallbackDescriptor(tm.letters[i], CharAt(tm.processedText, i))
           /\ amLoads[LoadOf(i)].state = "loaded" =>
                /\ ~tm.letters[i].isFallback
                /\ tm.letters[i].image.src = amLoads[LoadOf(i)].path

\* a call of each orchestrator has returned a text in which the load of
\* one character failed and the image of another was loaded
C12_Witness ==
  \/ /\ SelectorReturned
     /\ \E i, j \in 1..Len(sel.selected) :
          /\ sel.trace[i].fault /\ sel.trace[i].failed
          /\ sel.trace[i].path # ""
          /\ j > i /\ sel.selected[j].type = "letter"
          /\ ~sel.selected[j].isFallback
  \/ /\ TMReturned
     /\ \E i, j \in 1..Len(tm.letters) :
          /\ tm.letters[i].type = "letter" /\ tm.letters[j].type = "letter"
          /\ LoadOf(i) # 0 /\ LoadOf(j) # 0
          /\ amLoads[LoadOf(i)].state = "errored"
          /\ amLoads[LoadOf(j)].state = "loaded"


\* a letter descriptor that is flagged as a fallback and can be drawn
RenderableFallback(d) ==
  /\ d.type = "letter"
  /\ "isFallback" \in DOMAIN d /\ d.isFallback
  /\ "image" \in DOMAIN d /\ HasSize(d.image)

(* C13: when no backing asset is reachable, every alphanumeric character of
   any input yields a letter descriptor with isFallback = true and a
   resource with non-zero width and height *)
C13_TotalFallback ==
  /\ component = "LetterSelector" /\ server.present = {} =>
       \A i \in 1..Len(sel.selected) :
         IsAlphanumeric(CharAt(sel.text, i))
           => RenderableFallback(sel.selected[i])
  /\ TMReturned /\ ~am.assetsDetected =>
       \A i \in 1..Len(tm.letters) :
         IsAlphanumeric(CharAt(tm.processedText, i))
           => RenderableFallback(tm.letters[i])


\* descriptor d is a fallback in style: the style it stores, or for the
\* typography manager the style its letter was requested in
FallbackIn(d, style) ==
  /\ "isFallback" \in DOMAIN d /\ d.isFallback
  /\ \/ "style" \in DOMAIN d /\ d.style = style
     \/ "fullStyle" \in DOMAIN d /\ d.fullStyle = style

\* the descriptors the scenario names for "A1!"
ScenarioA1(result) ==
  /\ Len(result) = 3
  /\ FallbackIn(result[1], "sans-upper")
  /\ FallbackIn(result[2], "sans")
  /\ FallbackIn(result[3], "sans")

(* C14: for the input "A1!" with style "sans", location "NYC" and no asset
   reachable, text resolution returns 3 descriptors, all with isFallback =
   true, whose styles are "sans-upper" for A, "sans" for 1 and "sans"
   for ! *)
C14_ScenarioA1 ==
  /\ SelectorReturned /\ server.present = {} /\ sel.options.text = "A1!"
       /\ sel.style = "sans" /\ sel.location = "NYC"
       => ScenarioA1(sel.selected)
  /\ TMReturned /\ ~am.assetsDetected /\ tm.text = "A1!"
       /\ tm.opts.style = "sans" /\ tm.opts.city = "NYC"
       => ScenarioA1(tm.letters)


\* the positions, counted from 0, of the space-kind descriptors of result
SpacePositions(result) ==
  {i - 1 : i \in {j \in 1..Len(result) : result[j].type = "space"}}

\* a call for "Hi there" with caseOption "upper" has returned
HiThereSelected ==
  SelectorReturned /\ sel.options.text = "Hi there"
    /\ sel.options.caseOption = "upper"

HiThereResolved ==
  TMReturned /\ tm.text = "Hi there" /\ tm.opts.caseOption = "upper"

(* C15 as amended: for the input "Hi there" with caseOption "upper" the
   text is transformed to "HI THERE" before resolution and the result
   contains exactly 1 space-kind descriptor, at position 2 (counted from 0)
   of the transformed string *)
C15_OneSpace ==
  /\ HiThereSelected =>
       sel.text = "HI THERE" /\ SpacePositions(sel.selected) = {2}
  /\ HiThereResolved =>
       tm.processedText = "HI THERE" /\ SpacePositions(tm.letters) = {2}

\* C15 as stated: exactly 2 space-kind descriptors, at positions 2 and 7
C15_TwoSpaces ==
  /\ HiThereSelected =>
       sel.text = "HI THERE" /\ SpacePositions(sel.selected) = {2, 7}
  /\ HiThereResolved =>
       tm.processedText = "HI THERE" /\ SpacePositions(tm.letters) = {2, 7}

\* the selector has returned the 8 descriptors of "HI THERE"
C15_Witness == HiThereSelected /\ Len(sel.selected) = 8


\* what the case option makes of the text
Transformed(text, caseOption) ==
  CASE caseOption = "upper" -> toUpperCase(text)
    [] caseOption = "lower" -> toLowerCase(text)
    [] OTHER -> text

\* the paths and the glyphs the catalog derives from character in style
DerivedPaths(version, character, style, location) ==
  {getLetterPath(version, character, style, location, i).value : i \in 1..5}
    \cup {getFallbackPath(character, style)}
    \cup {generateFallbackLetterSVG(character, fullStyle, random) :
            fullStyle \in {style, style \o "-upper", style \o "-lower"},
            random \in FilterIds}

\* the keys under which the typography manager requests character
DerivedKeys(character, style, city) ==
  IF IsSpace(character) \/ ~IsAlphanumeric(character) THEN {}
  ELSE {CacheKey(requestOf(letterInfoOf(character, style, 0), city))}

\* the text getLettersFromText resolves
TextResolved == IF TextGiven(tm.text) THEN tm.text ELSE config.defaults.text

(* C16: the case transform is applied to the whole string before any
   per-character resolution: every variant lookup, load key and descriptor
   is derived from the transformed character, and no request is issued for
   a character in its original case when that differs from the
   transformed case *)
C16_TransformFirst ==
  /\ component = "LetterSelector" /\ sel.options.kind = "object" =>
       \A i \in 1..Len(sel.selected) :
         LET tc == CharAt(Transformed(sel.options.text,
                                      sel.options.caseOption), i)
             oc == CharAt(sel.options.text, i)
             style == sel.trace[i].style
         IN /\ sel.selected[i].value = tc
            /\ sel.trace[i].character \in {"", tc}
            /\ \A k \in 1..Len(sel.trace[i].probed) :
                 sel.trace[i].probed[k]
                   \in DerivedPaths(db.version, tc, style, sel.location)
            /\ sel.trace[i].path # "" =>
                 sel.trace[i].path
                   \in DerivedPaths(db.version, tc, style, sel.location)
            /\ oc # tc =>
                 \A id \in 1..Len(dbLoads) :
                   dbLoads[id].path
                     \notin DerivedPaths(db.version, oc, style, sel.location)
  /\ component = "TypographyManager" /\ tm.pc # "idle" =>
       LET transformed == Transformed(TextResolved, tm.opts.caseOption)
           keys == UNION {DerivedKeys(CharAt(transformed, i), tm.opts.style,
                                      tm.opts.city) :
                            i \in 1..Len(transformed)}
           prewarmed == {CacheKey(prewarmRequests[k]) :
                           k \in 1..Len(prewarmRequests)}
       IN /\ tm.processedText = transformed
          /\ \A id \in 1..Len(amLoads) :
               amLoads[id].key \in keys \cup prewarmed
          /\ DOMAIN am.cache \subseteq keys \cup prewarmed
          /\ \A i \in 1..Len(tm.letterInfo) :
               tm.letterInfo[i].value = CharAt(transformed, i)

\* the selector has looked up and loaded the 'A' that caseOption "upper"
\* makes of a typed 'a'
C16_Witness ==
  /\ SelectorReturned /\ sel.options.caseOption = "upper"
  /\ \E i \in 1..Len(sel.trace) :
       /\ CharAt(sel.options.text, i) = "a"
       /\ sel.trace[i].character = "A"
       /\ sel.trace[i].probed # <<>>
       /\ sel.trace[i].path # "" /\ ~sel.selected[i].isFallback

\* the glyphs getLetterVariants synthesizes for a letter in styleKey
SynthesizedFor(version, character, styleKey) ==
  IF version = 1
  THEN {generateFallbackLetterSVG(character,
          styleKey \o "-" \o CaseOf(character), random) : random \in FilterIds}
  ELSE {getFallbackPath(character, styleKey)}

\* a lookup, or a turn of the selector, for a letter in a style key the
\* style-name table does not have
UnknownStyleLookup(l) ==
  /\ IsLetter(l.character)
  /\ l.styleKey \notin DOMAIN styleFolderMap(l.version)
  /\ l.version = 1 => ~l.skipFallback

UnknownStyleTurn(i) ==
  /\ component = "LetterSelector" /\ sel.options.kind = "object"
  /\ sel.style \notin DOMAIN styleFolderMap(db.version) \cup {"random"}
  /\ IsLetter(sel.trace[i].character)
  /\ ~sel.trace[i].fault

\* the last element of a non-empty sequence
Last(seq) == seq[Len(seq)]

(* C17: for a letter character and a style key that is not in the
   style-name table, variant resolution does not throw: getLetterPath
   returns null after logging the error, no probe is issued for that
   character, and the character resolves to exactly one synthesized
   fallback, while the other characters of the text are resolved normally:
   the lookup leaves the catalog as it was, and a digit of the same text
   gets the variants it gets in a style the table has *)
C17_UnknownStyle ==
  /\ [](\A k \in 1..Len(lookups) :
          UnknownStyleLookup(lookups[k]) =>
            /\ \A i \in 1..5 :
                 LET p == getLetterPath(lookups[k].version,
                            lookups[k].character, lookups[k].styleKey,
                            lookups[k].location, i)
                 IN p.value = Null /\ p.error # ""
            /\ ~lookups[k].knewNoAssets =>
                 /\ lookups[k].errors # <<>>
                 /\ \A e \in 1..Len(lookups[k].errors) :
                      Includes(lookups[k].errors[e], "Unknown style key")
            /\ lookups[k].probed = <<>>
            /\ Len(lookups[k].value) = 1
            /\ lookups[k].value[1]
                 \in SynthesizedFor(lookups[k].version, lookups[k].character,
                                    lookups[k].styleKey))
  /\ [](\A i \in 1..Len(sel.trace) :
          UnknownStyleTurn(i) =>
            /\ sel.trace[i].probed = <<>>
            /\ Len(sel.trace[i].variants) = 1
            /\ sel.trace[i].variants[1]
                 \in SynthesizedFor(db.version, sel.trace[i].character,
                                    sel.style)
            /\ sel.selected[i].type = "letter"
            /\ sel.selected[i].value = sel.trace[i].character)
  /\ [][/\ component = "VariantCatalog" /\ Len(lookups') = Len(lookups) + 1
             /\ UnknownStyleLookup(Last(lookups'))
           => db' = db /\ late' = late
        /\ component = "LetterSelector" /\ db.version = 1
             /\ sel.options.kind = "object"
             /\ sel.style \notin DOMAIN styleFolderMap(1) \cup {"random"}
             /\ Len(sel'.trace) = Len(sel.trace) + 1
             /\ IsNumber(Last(sel'.trace).character)
             /\ ~Last(sel'.trace).fault
           => \E random \in FilterIds :
                LET n == getLetterVariants(db, server,
                           Last(sel'.trace).character, "sans", sel.location,
                           FALSE, random)
                IN /\ Last(sel'.trace).probed = n.probed
                   /\ Len(Last(sel'.trace).variants) = Len(n.found)
                   /\ n.probed # <<>> /\ n.found[1] \in server.present
                        => Last(sel'.trace).variants = n.found]_vars

\* the selector has resolved "A1!" in a style the table does not have: the
\* letter to one synthesized glyph without a probe, the digit to the image
\* the server has for it
C17_Witness ==
  /\ SelectorReturned /\ db.version = 1 /\ sel.style = "gothic"
  /\ sel.text = "A1!"
  /\ UnknownStyleTurn(1)
  /\ sel.trace[1].probed = <<>> /\ Len(sel.trace[1].variants) = 1
  /\ sel.trace[2].path = "assets/Numbers/1/01.jpg"
  /\ ~sel.selected[2].isFallback
  /\ sel.selected[3].type = "special"

\* two calls of getLetterVariants for the same character, style and
\* location that may end in the fallback
SameFallbackLookup(j, k) ==
  /\ lookups[j].character = lookups[k].character
  /\ lookups[j].styleKey = lookups[k].styleKey
  /\ lookups[j].location = lookups[k].location
  /\ ~lookups[j].skipFallback /\ ~lookups[k].skipFallback

(* C18: with no backing assets reachable, repeated fallback resolution for
   the same (character, style, location) returns an identical fallback on
   every call after the first: the variant catalog returns the URL it
   returned before, and the typography manager the object it returned
   before *)
C18_FallbackIdentical ==
  /\ component = "VariantCatalog" /\ server.present = {} =>
       \A j \in 1..Len(lookups), k \in 1..Len(lookups) :
         j < k /\ SameFallbackLookup(j, k) =>
           Len(lookups[k].value) = 1 /\ lookups[k].value = lookups[j].value
  /\ TMReturned /\ server.present = {} /\ tm.faults = 0 =>
       \A i \in 1..Len(tm.letters), j \in 1..Len(tm.letters) :
         /\ i < j
         /\ tm.letters[i].type = "letter" /\ tm.letters[j].type = "letter"
         /\ tm.letters[i].value = tm.letters[j].value
         /\ tm.letters[i].fullStyle = tm.letters[j].fullStyle
         => tm.letters[j].image = tm.letters[i].image

\* the candidate URL of index i for the lookup l, Null if it has none
Candidate(l, i) ==
  getLetterPath(l.version, l.character, l.styleKey, l.location, i).value

\* the server answers a request for the candidate within the probe's time
Loadable(l, i) ==
  Candidate(l, i) # Null /\ ProbeOutcome(server, Candidate(l, i)) = "onload"

\* a synthesized glyph, not the URL of an asset
IsDataUrl(path) == IndexOf(path, "data:") = 1

(* C19: getLetterVariants returns exactly the candidate URLs with indices
   01..03 that exist, in increasing index order with gaps permitted: every
   candidate the server has is in the result, and no URL the server does
   not have is in the result (the synthesized fallback apart) *)
C19_ExistingCandidates ==
  component = "VariantCatalog" =>
    \A k \in 1..Len(lookups) :
      LET l == lookups[k]
      IN /\ \A i \in 1..3 :
              Loadable(l, i) =>
                \E j \in 1..Len(l.value) : l.value[j] = Candidate(l, i)
         /\ \A j \in 1..Len(l.value) :
              IsDataUrl(l.value[j])
                \/ /\ l.value[j] \in server.present
                   /\ \E i \in 1..3 : l.value[j] = Candidate(l, i)
         /\ \A j1 \in 1..Len(l.value), j2 \in 1..Len(l.value) :
              \A i1 \in 1..3, i2 \in 1..3 :
                /\ j1 < j2
                /\ l.value[j1] = Candidate(l, i1)
                /\ l.value[j2] = Candidate(l, i2)
                => i1 < i2

\* the result of the lookup l has a synthesized glyph
HasSynthesized(l) == \E j \in 1..Len(l.value) : IsDataUrl(l.value[j])

\* the server has none of the candidates of the lookup l
NoCandidate(l) ==
  \A i \in 1..3 : Candidate(l, i) = Null \/ Candidate(l, i) \notin server.present

(* C20: getLetterVariants returns a synthesized fallback URL if and only
   if no candidate exists and skipFallback is false, and then the result is
   exactly that one URL; with skipFallback true and no existing candidate
   the result is empty; a result never mixes real URLs with a synthesized
   one *)
C20_FallbackIffNoCandidate ==
  component = "VariantCatalog" =>
    \A k \in 1..Len(lookups) :
      LET l == lookups[k]
      IN /\ HasSynthesized(l) =>
              /\ \A i \in 1..3 : ~Loadable(l, i)
              /\ ~l.skipFallback
              /\ Len(l.value) = 1
         /\ NoCandidate(l) /\ ~l.skipFallback => HasSynthesized(l)
         /\ NoCandidate(l) /\ l.skipFallback => l.value = <<>>

---------------------------------------------------------------------------
(* Properties: the existence probe *)

\* the calls of pathExists the recorded lookups made, as <<lookup, call>>
ProbeCalls ==
  {<<k, a>> : k \in 1..MaxLookups, a \in 1..5} \cap
  {x \in (1..Len(lookups)) \X (1..5) : x[2] <= Len(lookups[x[1]].answers)}

\* what the call x of pathExists resolved to
Answer(x) == lookups[x[1]].answers[x[2]]

\* the call x was made before the call y
Earlier(x, y) == x[1] < y[1] \/ (x[1] = y[1] /\ x[2] < y[2])

(* C21: the existence prober always resolves to a boolean, for a load, an
   error and a timeout alike, and it memoizes by URL: once a probe of URL u
   has resolved, every later probe of u returns the same boolean without
   issuing a new load attempt *)
C21_ProbeMemoized ==
  component = "VariantCatalog" =>
    /\ \A x \in ProbeCalls :
         /\ Answer(x).value \in BOOLEAN
         /\ Answer(x).probed =>
              Answer(x).value = (ProbeOutcome(server, Answer(x).path) = "onload")
    /\ \A x \in ProbeCalls, y \in ProbeCalls :
         Earlier(x, y) /\ Answer(x).path = Answer(y).path /\ Answer(x).probed
           => Answer(y).value = Answer(x).value /\ ~Answer(y).probed

(* C22: the existence cache is append-only: once pathExistsCache holds a
   boolean for URL u, no step changes or removes it, the step of a load
   event that arrives after the probe's timer recorded a result included *)
C22_CacheAppendOnly ==
  [][ db.version = 1 /\ db'.version = 1 =>
        \A u \in DOMAIN db.pathExistsCache :
          /\ u \in DOMAIN db'.pathExistsCache
          /\ db'.pathExistsCache[u] = db.pathExistsCache[u] ]_vars

---------------------------------------------------------------------------
(* Properties: image loads *)

\* the call in slot c is a loadImage of a synthetic resource
SyntheticLoad(c) ==
  call[c].op = "loadImage" /\ StartsWith(call[c].path, "data:")

(* C23: a synthetic resource (data: URL) passed to loadImage resolves
   immediately and always succeeds: no load is started and no in-flight
   entry is registered for it, so no timer can fail it, and the call has
   returned a resource with non-zero width and height *)
C23_SyntheticImmediate ==
  /\ \A c \in Callers :
       SyntheticLoad(c) =>
         /\ call[c].pc = "returned"
         /\ call[c].result.kind = "value"
         /\ call[c].result.value.width > 0
         /\ call[c].result.value.height > 0
  /\ \A id \in 1..Len(dbLoads) : ~StartsWith(dbLoads[id].path, "data:")
  /\ \A q \in DOMAIN db.loadingPromises : ~StartsWith(q, "data:")

---------------------------------------------------------------------------
(* Properties: the statistics of the asset manager *)

(* C24: every stats counter of the asset manager (requested, loaded,
   failed, cached, fallbacksCreated) is monotonic: no step decreases any
   of them *)
C24_CountersMonotonic ==
  [][ /\ getStats(am').requested >= getStats(am).requested
      /\ getStats(am').loaded >= getStats(am).loaded
      /\ getStats(am').failed >= getStats(am).failed
      /\ getStats(am').cached >= getStats(am).cached
      /\ getStats(am').fallbacksCreated >= getStats(am).fallbacksCreated
    ]_vars

\* every counter has been raised: a load succeeded, another failed and got
\* its own fallback, and a request was served from the cache
C24_Witness ==
  /\ getStats(am).requested = 3
  /\ getStats(am).loaded = 1
  /\ getStats(am).failed = 1
  /\ getStats(am).cached = 1
  /\ getStats(am).fallbacksCreated = 2

---------------------------------------------------------------------------
(* Properties: the resource cache and the in-flight map *)

\* a load of path by loadImage has succeeded: its promise was resolved with
\* the image it loaded
DBSucceeded(path) ==
  \E id \in 1..Len(dbLoads) :
    /\ dbLoads[id].path = path
    /\ dbLoads[id].promise = "resolved"
    /\ dbLoads[id].value = LoadedImage(dbLoads[id].src)

\* a load of path by loadImage is unsettled
DBPending(path) ==
  \E id \in 1..Len(dbLoads) :
    dbLoads[id].path = path /\ dbLoads[id].promise = "pending"

\* a load of key by loadLetter has succeeded, is unsettled
AMSucceeded(key) ==
  \E id \in 1..Len(amLoads) :
    amLoads[id].key = key /\ amLoads[id].state = "loaded"

AMPending(key) ==
  \E id \in 1..Len(amLoads) :
    amLoads[id].key = key /\ amLoads[id].state = "pending"

\* the in-flight maps hold unsettled loads only, and a key is cached if and
\* only if a load of it has succeeded
CacheIffSucceeded ==
  /\ \A k \in DOMAIN am.loadingPromises :
       amLoads[am.loadingPromises[k]].state = "pending"
  /\ \A q \in DOMAIN db.loadingPromises :
       dbLoads[db.loadingPromises[q]].promise = "pending"
  /\ \A id \in 1..Len(amLoads) :
       amLoads[id].key \in DOMAIN am.cache <=> AMSucceeded(amLoads[id].key)
  /\ \A k \in DOMAIN am.cache : AMSucceeded(k)
  /\ \A id \in 1..Len(dbLoads) :
       dbLoads[id].path \in DOMAIN db.letterCache
         <=> DBSucceeded(dbLoads[id].path)
  /\ \A q \in DOMAIN db.letterCache : DBSucceeded(q)

\* a request made in this step for a key whose loads have all failed starts
\* a fetch, and one for a key with a successful load is answered without
FreshFetchIffFailed ==
  /\ \A c \in Callers :
       DBRequestedBy(c) /\ call'[c].path # ""
         /\ ~StartsWith(call'[c].path, "data:") /\ ~DBPending(call'[c].path)
       => IF DBSucceeded(call'[c].path)
          THEN /\ dbLoads' = dbLoads
               /\ call'[c].pc = "returned"
               /\ call'[c].result.kind = "value"
               /\ call'[c].result.value = LoadedImage(call'[c].result.value.src)
          ELSE Len(dbLoads') = Len(dbLoads) + 1
  /\ \A c \in Callers :
       AMRequestedBy(c) /\ am.assetsDetected
         /\ ~AMPending(CacheKey(call'[c].req))
       => IF AMSucceeded(CacheKey(call'[c].req))
          THEN /\ amLoads' = amLoads
               /\ call'[c].pc = "returned"
               /\ call'[c].result.kind = "value"
               /\ ~call'[c].result.value.isFallback
               /\ am'.stats.cached = am.stats.cached + 1
          ELSE Len(amLoads') = Len(amLoads) + 1

(* C25: after a load of key k completes, k is absent from the in-flight
   map, and k is in the resource cache if and only if a load of k has
   succeeded: a failed or timed-out load leaves no cache entry, so the next
   request for k starts a fresh fetch, and a successful load makes every
   later request a cache hit with no fetch *)
C25_CacheIffSucceeded ==
  []CacheIffSucceeded /\ [][FreshFetchIffFailed]_vars

\* the loads of path by loadImage that are unsettled
DBPendingLoads(path) ==
  {id \in 1..Len(dbLoads) :
     dbLoads[id].path = path /\ dbLoads[id].promise = "pending"}

\* in this step the Image of a load whose timer has fired reports
LateEvent(id) ==
  /\ id \in 1..Len(dbLoads)
  /\ dbLoads[id].timer = "fired"
  /\ dbLoads'[id].img # dbLoads[id].img

(* C26: a completion event of a load that has already timed out never
   disturbs a later load of the same key: it removes no in-flight entry of
   another load, every unsettled load stays registered in flight, so no
   request starts another fetch while it is pending, and at most one
   in-flight operation per key exists in every state *)
C26_LateEventHarmless ==
  /\ [](\A id \in 1..Len(dbLoads) :
          /\ Cardinality(DBPendingLoads(dbLoads[id].path)) <= 1
          /\ dbLoads[id].promise = "pending" =>
               /\ dbLoads[id].path \in DOMAIN db.loadingPromises
               /\ db.loadingPromises[dbLoads[id].path] = id)
  /\ [][\A id \in 1..Len(dbLoads) :
          LateEvent(id) => db'.loadingPromises = db.loadingPromises]_vars

---------------------------------------------------------------------------
(* Properties: the detection loop over the whole candidate lists *)

\* run r probes one file at a time: a step that changes its log appends the
\* result of the one probe the run was waiting for, and only that step moves
\* the run on, to the combination that follows in the nested loops
OneProbeAtATime(r) ==
  LET d == detections[r]
      e == detections'[r]
      nT == Len(candidates.templates)
  IN /\ (e.b # d.b \/ e.t # d.t \/ e.done # d.done) => e.log # d.log
     /\ e.log # d.log =>
          /\ ~d.done
          /\ Len(e.log) = Len(d.log) + 1
          /\ SubSeq(e.log, 1, Len(d.log)) = d.log
          /\ e.log[Len(e.log)].b = d.b /\ e.log[Len(e.log)].t = d.t
          /\ e.log[Len(e.log)].path = ProbePath(d.b, d.t)
          /\ ~e.done =>
               IF IsDevelopmentHost(hostname)
               THEN e.b = d.b /\ e.t = d.t + 1
               ELSE /\ ~e.log[Len(e.log)].ok
                    /\ e.b = IF d.t < nT THEN d.b ELSE d.b + 1
                    /\ e.t = IF d.t < nT THEN d.t + 1 ELSE 1

\* the probes of run r that tested base b with template t
ProbesOf(r, b, t) ==
  {i \in 1..Len(detections[r].log) :
     detections[r].log[i].b = b /\ detections[r].log[i].t = t}

\* run r has probed every combination of the 14 bases and the 6 templates
\* once, and nothing else
ProbedAllOnce(r) ==
  /\ Len(possibleBasePaths) = 14 /\ Len(pathTemplates) = 6
  /\ Len(detections[r].log) = 14 * 6
  /\ \A b \in 1..14, t \in 1..6 : Cardinality(ProbesOf(r, b, t)) = 1

\* on a production host no probe has succeeded and the manager is in
\* fallback-only mode
NothingExists ==
  /\ ~IsDevelopmentHost(hostname)
  /\ NoProbeSucceeded
  /\ am.assetDetectionCompleted /\ ~am.assetsDetected

\* C27: detection is sequential, one probe at a time within a run; when
\* nothing exists the manager is in fallback-only mode only after a run has
\* probed each of the 14 x 6 combinations exactly once; and with the probe
\* timers firing every call that waits for a detection gets past it.
C27_SequentialDetection ==
  /\ [][\A r \in 1..Len(detections) : OneProbeAtATime(r)]_vars
  /\ [](NothingExists =>
          /\ detections # <<>>
          /\ \A r \in 1..Len(detections) :
               detections[r].done => ProbedAllOnce(r))
  /\ \A c \in Callers : (call[c].pc = "probing") ~> (call[c].pc # "probing")

\* a detection that went through all the combinations and found nothing
C27_Witness ==
  /\ NothingExists
  /\ \E r \in 1..Len(detections) : detections[r].done /\ ProbedAllOnce(r)
  /\ \E c \in Callers : call[c].pc = "returned"

---------------------------------------------------------------------------
(* Properties: detection on a development host *)

\* run r, on a development host, has ended on a quick path that exists
FoundQuickPath(r) ==
  IsDevelopmentHost(hostname) /\ detections[r].done /\ Found(r)

\* the quick path run r found
QuickFound(r) == detections[r].log[Len(detections[r].log)].t

\* a loadLetter that got past detection and was answered with a fallback
AnsweredWithFallback(c) ==
  /\ call[c].op = "loadLetter"
  /\ call[c].pc = "returned"
  /\ call[c].result.kind = "value"
  /\ call[c].result.value.isFallback

\* C28: on a development host a detection that finds one of its quick paths
\* ends as a production detection does: assetsDetected is set, basePath and
\* workingPathPattern are those of the path found, and a later loadLetter
\* is answered with a fallback only when its load has failed.
C28_DevelopmentDetected ==
  \A r \in 1..Len(detections) :
    FoundQuickPath(r) =>
      /\ am.assetsDetected
      /\ am.basePath = QuickBasePaths[QuickFound(r)]
      /\ am.workingPathPattern = QuickPatterns[QuickFound(r)]
      /\ \A c \in Callers : AnsweredWithFallback(c) => am.stats.failed > 0

---------------------------------------------------------------------------
(* Properties: the characters that are not resolved *)

\* ch is a space or another character that is neither a letter nor a digit
PassesThrough(ch) == Len(ch) = 1 /\ ~IsLetter(ch) /\ ~IsNumber(ch)

\* the kind of the descriptor of such a character
PassThroughKind(ch) == IF ch = " " THEN "space" ELSE "special"

\* the character the next turn of the selector's loop is for
NextChar == CharAt(sel.text, Len(sel.selected) + 1)

\* a turn of the selector for a character that passes through appends the
\* descriptor of the character and leaves the catalog, its probes and its
\* image loads as they are
SelectorPassesThrough ==
  (/\ component = "LetterSelector"
   /\ sel.pc = "running"
   /\ sel'.selected # sel.selected
   /\ PassesThrough(NextChar)) =>
    /\ sel'.selected =
         Append(sel.selected,
                [type |-> PassThroughKind(NextChar), value |-> NextChar])
    /\ sel'.trace = Append(sel.trace, NoTurn)
    /\ db' = db
    /\ dbLoads' = dbLoads
    /\ late' = late
    /\ lookups' = lookups

\* the letters the asset manager was asked for, has cached or synthesized
\* a fallback for, and the ones the letter generator made
LettersResolved ==
  {amLoads[id].req.letter : id \in 1..Len(amLoads)}
    \cup DOMAIN am.fallbackImages
    \cup {tm.promises[i].req.letter :
            i \in {j \in 1..Len(tm.promises) : tm.promises[j].kind = "pending"}}

\* in a call of getLettersFromText the i-th character, which passes
\* through, has its descriptor, a promise resolved without a load, and no
\* letter of the asset manager
ManagerPassesThrough(i) ==
  LET ch == CharAt(tm.processedText, i)
      info == [type |-> PassThroughKind(ch), value |-> ch, index |-> i - 1]
  IN /\ tm.letterInfo[i] = info
     /\ tm.promises[i] = Resolved(NoResult)
     /\ tm.pc = "returned" => tm.letters[i] = info
     /\ ch \notin LettersResolved
     /\ am.stats.requested <=
          Cardinality({j \in 1..Len(tm.processedText) :
                         ~PassesThrough(CharAt(tm.processedText, j))})
            + Len(prewarmRequests)

\* C29: a space or a character that is neither a letter nor a digit is not
\* resolved: the selector and the typography manager emit a descriptor of
\* type space or special that carries the character, and no variant
\* lookup, no existence probe and no image load is made for it.
C29_PassThrough ==
  /\ [][SelectorPassesThrough]_vars
  /\ []((component = "TypographyManager" /\ tm.pc # "idle") =>
          \A i \in 1..Len(tm.processedText) :
            PassesThrough(CharAt(tm.processedText, i)) =>
              ManagerPassesThrough(i))

\* the selector has returned the descriptors of "A1!": the last one is the
\* special character, passed through
C29_Witness ==
  /\ component = "LetterSelector"
  /\ sel.pc = "returned"
  /\ sel.text = "A1!"
  /\ Len(sel.selected) = 3
  /\ sel.selected[3] = [type |-> "special", value |-> "!"]
  /\ sel.trace[3] = NoTurn
  /\ sel.selected[1].type = "letter"

---------------------------------------------------------------------------
(* Properties: the Glyph Synthesizer *)

\* the fallback the asset manager holds for ch was synthesized again in
\* this step, for the same character and style: initialize synthesizes the
\* one of "A" in "sans" whenever it runs, and no other entry is written twice
SynthesizedAgain(ch) ==
  /\ ch \in DOMAIN am.fallbackImages
  /\ ch \in DOMAIN am'.fallbackImages
  /\ \E c \in Callers : call[c].pc = "idle" /\ call'[c].pc = "probing"

\* C30: two calls of generateFallbackLetterSVG with the same character and
\* style give URLs that compare equal: a glyph synthesized again is the URL
\* that was synthesized before, whatever id it embeds.
C30_SynthesizerDeterministic ==
  [][\A ch \in DOMAIN am.fallbackImages :
       SynthesizedAgain(ch) =>
         am'.fallbackImages[ch].src = am.fallbackImages[ch].src]_vars

---------------------------------------------------------------------------
(* Properties: the paths of digits and symbols *)

\* two calls of getLetterPath of the same catalog for the same digit or
\* symbol and the same index
SameNumberedFolder(j, k) ==
  /\ lookups[j].character = lookups[k].character
  /\ lookups[j].variantIndex = lookups[k].variantIndex
  /\ IsNumber(lookups[j].character) \/ IsSymbol(lookups[j].character)

\* C31: for a digit or a symbol the path does not depend on the style key
\* or on the location: two calls for the same character and index return
\* the same path, and never null, whatever the style key.
C31_StyleIndependent ==
  \A j \in 1..Len(lookups), k \in 1..Len(lookups) :
    SameNumberedFolder(j, k) =>
      lookups[j].value = lookups[k].value /\ lookups[j].value # Null

\* the classes getLetterPath puts ch in
ClassesOf(ch) ==
  {cl \in {"digit", "symbol", "letter"} :
     \/ cl = "digit" /\ IsNumber(ch)
     \/ cl = "symbol" /\ IsSymbol(ch)
     \/ cl = "letter" /\ IsLetter(ch)}

\* getLetterPath has answered the call l with the folder symbolMap names
\* for its character
SymbolFolderReturned(l) ==
  /\ ClassesOf(l.character) = {"symbol"}
  /\ l.value = "assets/Symbols/" \o symbolMap[l.character] \o "/"
                 \o PadStart2(l.variantIndex) \o ".jpg"

\* C32: every character symbolMap has an entry for is classified as a
\* symbol and gets the path assets/Symbols/<mapped name>/<index>.jpg, so
\* that every entry of the table is used; and no character is in more than
\* one of the classes digit, symbol and letter.
C32_SymbolTable ==
  \A k \in 1..Len(lookups) :
    /\ Cardinality(ClassesOf(lookups[k].character)) <= 1
    /\ lookups[k].character \in DOMAIN symbolMap =>
         SymbolFolderReturned(lookups[k])

---------------------------------------------------------------------------
(* Properties: random styles *)

\* what selectLettersForText selects for char in style, in a catalog as
\* constructed and an environment that fails nothing
FixedStyleLetter(char, style) ==
  selectLetter(LetterDatabaseNew(db.version), <<>>, server, char, style,
               sel.location, FALSE,
               [lookup |-> "returns", random |-> 0, index |-> 1,
                event |-> "onload", placeholder |-> "onload"]).letter

\* the descriptors d and f are of the same kind and carry the same character
SameKind(d, f) == d.type = f.type /\ d.value = f.value

\* the i-th descriptor of a call in random mode is of the kind and carries
\* the character selectLettersForText gives for the same character, and if
\* it is a letter its style is one of the available styles
RandomStyleOnly(i) ==
  LET char == CharAt(sel.text, i)
      d == sel.selected[i]
  IN /\ \A style \in availableStyles :
          SameKind(d, FixedStyleLetter(char, style))
     /\ d.value = char
     /\ d.type = "letter" => d.style \in availableStyles

\* C33: random mode changes only the style: selectLettersWithRandomStyles
\* returns one descriptor per character, of the same kind and with the same
\* character at the same position as selectLettersForText does for the
\* text, and the style of every letter descriptor is an available style.
C33_RandomStyleOnly ==
  (component = "LetterSelector" /\ sel.randomMode) =>
    /\ Len(sel.selected) <= Len(sel.text)
    /\ sel.pc = "returned" => Len(sel.selected) = Len(sel.text)
    /\ \A i \in 1..Len(sel.selected) : RandomStyleOnly(i)

\* a call in random mode has returned a letter in a style other than the
\* default, a space and a special character
C33_Witness ==
  /\ component = "LetterSelector"
  /\ sel.randomMode /\ sel.pc = "returned"
  /\ sel.text = "a !"
  /\ sel.selected[1].type = "letter" /\ sel.selected[1].style = "script"
  /\ sel.selected[2] = [type |-> "space", value |-> " "]
  /\ sel.selected[3] = [type |-> "special", value |-> "!"]

---------------------------------------------------------------------------
(* Properties: the catalog after an asset check that found nothing *)

\* the startup check of the catalog has ended and has detected no asset
CheckFoundNothing ==
  /\ component \in {"VariantCatalog", "LetterSelector"}
  /\ db.version = 1
  /\ "checked" \in DOMAIN db.pathExistsCache /\ db.pathExistsCache["checked"]
  /\ ~db.assetsDetected

\* the lookup l made no load attempt: each of its calls of pathExists was
\* answered from the cache or with false, and none requested an Image
NoLoadAttempt(l) ==
  /\ l.probed = <<>>
  /\ \A a \in 1..Len(l.answers) :
       /\ ~l.answers[a].probed /\ ~l.answers[a].late
       /\ l.answers[a].path \in DOMAIN db.pathExistsCache
            => l.answers[a].value = db.pathExistsCache[l.answers[a].path]
       /\ l.answers[a].path \notin DOMAIN db.pathExistsCache
            => ~l.answers[a].value

\* the lookup l returned one synthesized glyph and asked for no path
SingleFallback(l) ==
  /\ Len(l.value) = 1
  /\ IsDataUrl(l.value[1])
  /\ l.answers = <<>>

\* C34: once the startup check has ended without detecting an asset, no
\* step requests an Image for a path that is not cached (pathExists returns
\* false for it and the cache gets no new path), and getLetterVariants
\* with skipFallback false returns a single synthesized fallback without a
\* call of pathExists.
C34_NoProbeAfterFailedCheck ==
  [][CheckFoundNothing =>
       /\ DOMAIN db'.pathExistsCache = DOMAIN db.pathExistsCache
       /\ ~db'.assetsDetected
       /\ late' \subseteq late
       /\ \A k \in (Len(lookups) + 1)..Len(lookups') :
            /\ NoLoadAttempt(lookups'[k])
            /\ ~lookups'[k].skipFallback => SingleFallback(lookups'[k])
       /\ \A i \in (Len(sel.trace) + 1)..Len(sel'.trace) :
            sel'.trace[i].probed = <<>>]_vars

\* after a check that found nothing, a lookup that keeps the fallback got
\* the synthesized glyph and one that skips it got nothing, both unprobed
C34_Witness ==
  /\ CheckFoundNothing
  /\ Len(lookups) = 2
  /\ ~lookups[1].skipFallback /\ SingleFallback(lookups[1])
  /\ lookups[2].skipFallback /\ lookups[2].value = <<>>
  /\ Len(lookups[2].answers) = 3
  /\ NoLoadAttempt(lookups[1]) /\ NoLoadAttempt(lookups[2])
  /\ lookups[1].knewNoAssets /\ lookups[2].knewNoAssets

---------------------------------------------------------------------------
(* Properties: debounce *)

\* the k-th invocation of fn came when the wait had elapsed since the most
\* recent call, with the arguments of that call, and a call lies between
\* it and the invocation before it
TrailingInvocation(k) ==
  LET v == deb.invoked[k]
  IN /\ v.after >= 1
     /\ v.args = deb.calls[v.after]
     /\ v.elapsed = DebounceWait
     /\ k > 1 => deb.invoked[k - 1].after < v.after

\* the most recent call is waited for, its timer due when the wait has
\* elapsed since it, or fn has been invoked for it
QuietPeriodServed ==
  IF deb.timeout = "armed"
  THEN /\ deb.elapsed + deb.remaining = DebounceWait
       /\ deb.args = deb.calls[Len(deb.calls)]
       /\ \A k \in 1..Len(deb.invoked) : deb.invoked[k].after < Len(deb.calls)
  ELSE deb.calls # <<>> =>
         /\ deb.invoked # <<>>
         /\ deb.invoked[Len(deb.invoked)].after = Len(deb.calls)

\* C35: with immediate false, fn is invoked only when the wait has elapsed
\* since the most recent call with no call in between, once for each such
\* quiet period and with the arguments of that call; it is not invoked
\* while calls keep arriving less than the wait apart.
C35_TrailingDebounce ==
  (component = "Debounce" /\ ~deb.immediate) =>
    /\ \A k \in 1..Len(deb.invoked) : TrailingInvocation(k)
    /\ QuietPeriodServed

\* three calls less than the wait apart and a fourth after a quiet period:
\* fn was invoked twice, with the arguments of the third and of the fourth
C35_Witness ==
  /\ component = "Debounce" /\ ~deb.immediate
  /\ deb.calls = <<"a", "b", "a", "b">>
  /\ Len(deb.invoked) = 2
  /\ deb.invoked[1].after = 3 /\ deb.invoked[1].args = "a"
  /\ deb.invoked[2].after = 4 /\ deb.invoked[2].args = "b"

---------------------------------------------------------------------------
(* Properties: the resolver after initialization *)

\* after initialization the pattern is there exactly when assets were
\* detected
PatternIffDetected ==
  (am.workingPathPattern # Null) <=> am.assetsDetected

\* this step is a loadLetter of caller c, called after initialization, for
\* a letter that is neither cached nor being loaded
LoadsAfterInitialization(c) ==
  /\ am.initialized
  /\ Free(c)
  /\ call'[c] # call[c]
  /\ call'[c].op = "loadLetter"
  /\ am'.stats.requested = am.stats.requested + 1
  /\ CacheKey(call'[c].req) \notin DOMAIN am.cache
  /\ CacheKey(call'[c].req) \notin DOMAIN am.loadingPromises

\* the step starts the load of the file the pattern names for the request
UsesDetectedPattern(c) ==
  /\ Len(amLoads') = Len(amLoads) + 1
  /\ call'[c].pc = "loading"
  /\ call'[c].awaits = Len(amLoads')
  /\ amLoads'[Len(amLoads')].path = LetterPath(am, call'[c].req)

\* the step answers with a synthesized fallback and starts no load
AnswersWithoutLoad(c) ==
  /\ amLoads' = amLoads
  /\ call'[c].pc = "returned"
  /\ call'[c].result.kind = "value"
  /\ call'[c].result.value.isFallback

\* C36: once initialization has completed, workingPathPattern is non-null
\* if and only if assetsDetected is true, and a load uses the detected
\* pattern exactly when the pattern is non-null.
C36_ResolverConsistent ==
  /\ [](am.initialized => PatternIffDetected)
  /\ [][\A c \in Callers :
          LoadsAfterInitialization(c) =>
            IF am.workingPathPattern # Null
            THEN UsesDetectedPattern(c)
            ELSE AnswersWithoutLoad(c)]_vars

---------------------------------------------------------------------------
(* Properties: the style of a fallback *)

\* the glyphs the synthesizer renders for the letter and the style of a
\* request
FallbacksInStyleOf(req) ==
  {generateFallbackLetterSVG(req.letter, req.style, random) :
     random \in FilterIds}

\* C37: the fallback a loadLetter call is answered with is the one
\* synthesized for the style the call asked for, so two calls for the same
\* character in different styles each get a fallback in their own style.
C37_FallbackInRequestedStyle ==
  \A c \in Callers :
    AnsweredWithFallback(c) =>
      call[c].result.value.src \in FallbacksInStyleOf(call[c].req)

---------------------------------------------------------------------------
(* Properties: the generate button *)

\* an updateCanvas is at its await
GenerationInProgress ==
  \E g \in 1..Len(app.generations) : app.generations[g] = "awaiting"

\* generations were started and every one has finished
GenerationsFinished ==
  /\ app.generations # <<>>
  /\ \A g \in 1..Len(app.generations) : app.generations[g] = "finished"

\* C38: the generate button is disabled in every state in which an
\* updateCanvas is in progress, also when the size toggle starts a second
\* one while the first awaits its letters, and it is enabled again when
\* the generations have finished, with or without an error.
C38_ButtonDisabledWhileGenerating ==
  component = "App" =>
    /\ GenerationInProgress => app.disabled
    /\ GenerationsFinished => ~app.disabled

---------------------------------------------------------------------------
(* Properties: the requests and their outcomes *)

\* the requests counted as served from the cache, loaded or failed
Outcomes(this) == this.stats.cached + this.stats.loaded + this.stats.failed

\* C39: stats.requested >= stats.cached + stats.loaded + stats.failed in
\* every state of the asset manager: a step counts one request at most and
\* one outcome at most, and no outcome without a request counted for it,
\* also when several callers are handed the same load.
C39_RequestedCoversOutcomes ==
  /\ [](am.stats.requested >= Outcomes(am))
  /\ [][/\ am'.stats.requested - am.stats.requested \in {0, 1}
        /\ Outcomes(am') - Outcomes(am) \in {0, 1}]_vars

\* two callers were handed one load, which succeeded: two requests, one
\* outcome
C39_Witness ==
  /\ component = "AssetManager"
  /\ \A c \in Callers :
       /\ call[c].op = "loadLetter"
       /\ call[c].pc = "returned"
       /\ call[c].result.kind = "value"
       /\ ~call[c].result.value.isFallback
  /\ call[1].req = call[2].req
  /\ Len(amLoads) = 1
  /\ am.stats = [requested |-> 2, loaded |-> 1, failed |-> 0, cached |-> 0]

---------------------------------------------------------------------------
(* Properties: the counters of the letter generator *)

\* calls j and k of generateLetter had the same character, style, variant
\* and city
SameGeneratorKey(j, k) ==
  /\ gen.calls[j].char = gen.calls[k].char
  /\ gen.calls[j].style = gen.calls[k].style
  /\ gen.calls[j].options = gen.calls[k].options

\* C40: after any sequence of generateLetter calls stats.generated equals
\* the size of the cache, stats.generated + stats.cached equals the number
\* of calls, and two calls with the same character, style, variant and
\* city have returned the same object.
C40_GeneratorCounters ==
  component = "LetterGenerator" =>
    /\ gen.this.stats.generated = Cardinality(DOMAIN gen.this.cache)
    /\ gen.this.stats.generated + gen.this.stats.cached = Len(gen.calls)
    /\ \A j \in 1..Len(gen.calls), k \in 1..Len(gen.calls) :
         SameGeneratorKey(j, k) => gen.calls[j].value = gen.calls[k].value

\* three calls, the first and the third for the same letter: two letters
\* generated and one taken from the cache
C40_Witness ==
  /\ component = "LetterGenerator"
  /\ Len(gen.calls) = 3
  /\ SameGeneratorKey(1, 3)
  /\ ~SameGeneratorKey(1, 2)
  /\ gen.calls[1].value # gen.calls[2].value
  /\ gen.this.stats = [generated |-> 2, cached |-> 1]

============================================================================
